---- MODULE Spec2Model ----
(***************************************************************************)
(* Model of backend/app.py of realtime-ocr: the lazily created EasyOCR     *)
(* reader, run_with_timeout, the OCR passes of one /api/ocr request, the   *)
(* candidate selection and merge_segments_into_lines.                      *)
(*                                                                         *)
(* Conventions.  A string is a sequence of one-character strings; a CJK    *)
(* or full-width character is written by its code point ("U4E2D").         *)
(* Confidences are integers in hundredths (0.95 is 95); a mean is kept as  *)
(* the pair (sum, count) and compared by cross multiplication, so the      *)
(* arithmetic is exact (binary floating point rounding is not modelled).   *)
(***************************************************************************)
EXTENDS Integers, Sequences, FiniteSets, TLC

\* ------------------------------------------------------------------------
\* Program constants
\* ------------------------------------------------------------------------
MIN_CONFIDENCE == 10
HIGH_CONFIDENCE_THRESHOLD == 95
DEFAULT_CONFIG_PRIORITY == 1
CONFIG_PRIORITY_WEIGHT == 4
WORD_FREQUENCY_WEIGHT == 6

\* ------------------------------------------------------------------------
\* Bounds of the model
\* ------------------------------------------------------------------------
\* deadlines that may expire in one run
MaxTimeouts == 1
\* longest segment list given to merge_segments_into_lines
MaxSegs == 3
\* largest increase of a candidate's confidence (in hundredths per detection)
\* or length tried on the score
MaxStep == 3
\* longest string given to the TextNormalizer on its own
MaxText == 4

\* ------------------------------------------------------------------------
\* Characters and strings
\* ------------------------------------------------------------------------
UpperSeq == <<"A","B","C","D","E","F","G","H","I","J","K","L","M",
              "N","O","P","Q","R","S","T","U","V","W","X","Y","Z">>
LowerSeq == <<"a","b","c","d","e","f","g","h","i","j","k","l","m",
              "n","o","p","q","r","s","t","u","v","w","x","y","z">>
Digits == {"0","1","2","3","4","5","6","7","8","9"}

Range(f) == {f[i] : i \in DOMAIN f}

UpperSet == Range(UpperSeq)
LowerSet == Range(LowerSeq)
ToLower == [c \in UpperSet |-> LowerSeq[CHOOSE i \in 1..26 : UpperSeq[i] = c]]
ToUpper == [c \in LowerSet |-> UpperSeq[CHOOSE i \in 1..26 : LowerSeq[i] = c]]

IsUpper(c) == c \in UpperSet
IsLowerCh(c) == c \in LowerSet
IsLetter(c) == IsUpper(c) \/ IsLowerCh(c)

\* str.lower() / str.upper() on one character
LowerCh(c) == IF IsUpper(c) THEN ToLower[c] ELSE c
UpperCh(c) == IF IsLowerCh(c) THEN ToUpper[c] ELSE c
LowerStr(s) == [i \in 1..Len(s) |-> LowerCh(s[i])]
UpperStr(s) == [i \in 1..Len(s) |-> UpperCh(s[i])]

\* str.isspace() on one character
IsSpace(c) == c \in {" ", "\t", "\n", "\r", "\f"}

\* regex \w
IsWordCh(c) == IsLetter(c) \/ c \in Digits \/ c = "_"

is_english_alnum(c) == IsLetter(c) \/ c \in Digits

\* representatives of CHINESE_CHAR_RANGES
is_chinese_char(c) == c \in {"U4E2D", "U6587", "U3400", "U20000"}

ENGLISH_TO_CHINESE_PUNCT ==
    [c \in {",", ".", "!", "?", ":", ";", "(", ")", "[", "]"} |->
        CASE c = "," -> "UFF0C"
          [] c = "." -> "U3002"
          [] c = "!" -> "UFF01"
          [] c = "?" -> "UFF1F"
          [] c = ":" -> "UFF1A"
          [] c = ";" -> "UFF1B"
          [] c = "(" -> "UFF08"
          [] c = ")" -> "UFF09"
          [] c = "[" -> "U3010"
          [] c = "]" -> "U3011"]

CHINESE_TO_ENGLISH_PUNCT ==
    [v \in Range(ENGLISH_TO_CHINESE_PUNCT) |->
        CHOOSE k \in DOMAIN ENGLISH_TO_CHINESE_PUNCT : ENGLISH_TO_CHINESE_PUNCT[k] = v]

\* str.strip(): remove leading and trailing whitespace
RECURSIVE LStripSet(_, _)
LStripSet(s, set) ==
    IF s # <<>> /\ Head(s) \in set THEN LStripSet(Tail(s), set) ELSE s

RECURSIVE RStripSet(_, _)
RStripSet(s, set) ==
    IF s # <<>> /\ s[Len(s)] \in set THEN RStripSet(SubSeq(s, 1, Len(s) - 1), set) ELSE s

WhiteSpace == {" ", "\t", "\n", "\r", "\f"}
Strip(s) == RStripSet(LStripSet(s, WhiteSpace), WhiteSpace)

\* re.sub(r'\s+', ' ', text)
RECURSIVE CollapseWhitespace(_)
CollapseWhitespace(s) ==
    IF s = <<>> THEN <<>>
    ELSE IF IsSpace(Head(s))
         THEN <<" ">> \o CollapseWhitespace(LStripSet(Tail(s), WhiteSpace))
         ELSE <<Head(s)>> \o CollapseWhitespace(Tail(s))

\* str.split(): the maximal runs of non-whitespace characters, in order
RECURSIVE SplitWords(_)
SplitWords(s) ==
    LET t == LStripSet(s, WhiteSpace) IN
    IF t = <<>> THEN <<>>
    ELSE LET n == IF \E i \in 1..Len(t) : IsSpace(t[i])
                  THEN (CHOOSE i \in 1..Len(t) :
                            IsSpace(t[i]) /\ \A j \in 1..(i - 1) : ~IsSpace(t[j])) - 1
                  ELSE Len(t)
         IN <<SubSeq(t, 1, n)>> \o SplitWords(SubSeq(t, n + 1, Len(t)))

\* ' '.join(parts)
RECURSIVE JoinSpace(_)
JoinSpace(parts) ==
    IF parts = <<>> THEN <<>>
    ELSE IF Len(parts) = 1 THEN parts[1]
    ELSE parts[1] \o <<" ">> \o JoinSpace(Tail(parts))

\* ------------------------------------------------------------------------
\* TextNormalizer
\* ------------------------------------------------------------------------
\* context_flags: the nearest non-space character on one side (dir is -1 or 1),
\* or "" when there is none
RECURSIVE NearestNonSpace(_, _, _)
NearestNonSpace(chars, j, dir) ==
    IF j < 1 \/ j > Len(chars) THEN ""
    ELSE IF IsSpace(chars[j]) THEN NearestNonSpace(chars, j + dir, dir)
    ELSE chars[j]

\* mutant: only the character before the punctuation gives the context
LeftContextFlags(chars, index) ==
    LET l == NearestNonSpace(chars, index - 1, -1)
    IN [english |-> is_english_alnum(l), chinese |-> is_chinese_char(l)]

context_flags(chars, index) ==
    LET l == NearestNonSpace(chars, index - 1, -1)
        r == NearestNonSpace(chars, index + 1, 1)
    IN [english |-> is_english_alnum(l) \/ is_english_alnum(r),
        chinese |-> is_chinese_char(l) \/ is_chinese_char(r)]

normalize_punctuation_by_language(text) ==
    [i \in 1..Len(text) |->
        LET ch == text[i]
            ctx == context_flags(text, i)
        IN IF ch \notin DOMAIN CHINESE_TO_ENGLISH_PUNCT /\ ch \notin DOMAIN ENGLISH_TO_CHINESE_PUNCT
           THEN ch
           ELSE IF ctx.english /\ ~ctx.chinese
                THEN (IF ch \in DOMAIN CHINESE_TO_ENGLISH_PUNCT
                      THEN CHINESE_TO_ENGLISH_PUNCT[ch] ELSE ch)
                ELSE IF ctx.chinese /\ ~ctx.english
                     THEN (IF ch \in DOMAIN ENGLISH_TO_CHINESE_PUNCT
                           THEN ENGLISH_TO_CHINESE_PUNCT[ch] ELSE ch)
                     ELSE ch]

\* str.isupper(): no lower-case letter and at least one upper-case letter
IsUpperStr(s) ==
    /\ \E i \in 1..Len(s) : IsUpper(s[i])
    /\ \A i \in 1..Len(s) : ~IsLowerCh(s[i])

\* str.capitalize()
Capitalize(s) ==
    [i \in 1..Len(s) |-> IF i = 1 THEN UpperCh(s[i]) ELSE LowerCh(s[i])]

preserve_case(original, replacement) ==
    IF original = <<>> THEN replacement
    ELSE IF IsUpperStr(original) THEN UpperStr(replacement)
    ELSE IF IsUpper(original[1]) THEN Capitalize(replacement)
    ELSE replacement

\* regex \b at the gap before position i
IsBoundary(s, i) ==
    LET before == i > 1 /\ i - 1 <= Len(s) /\ IsWordCh(s[i - 1])
        after == i >= 1 /\ i <= Len(s) /\ IsWordCh(s[i])
    IN before # after

\* A pattern is a sequence of elements "b" (\b), "ws" (\s+) and "lit" (one
\* character, matched ignoring case).  MatchEnd is the position after the match
\* of pat[k..] at position i, or 0 when there is none.
RECURSIVE MatchEnd(_, _, _, _)
MatchEnd(s, i, pat, k) ==
    IF k > Len(pat) THEN i
    ELSE LET e == pat[k] IN
         IF e.kind = "b"
         THEN (IF IsBoundary(s, i) THEN MatchEnd(s, i, pat, k + 1) ELSE 0)
         ELSE IF e.kind = "ws"
         THEN (IF i <= Len(s) /\ IsSpace(s[i])
               THEN MatchEnd(s, Len(s) - Len(LStripSet(SubSeq(s, i, Len(s)), WhiteSpace)) + 1,
                             pat, k + 1)
               ELSE 0)
         ELSE (IF i <= Len(s) /\ LowerCh(s[i]) = e.ch
               THEN MatchEnd(s, i + 1, pat, k + 1)
               ELSE 0)

Lit(c) == [kind |-> "lit", ch |-> c]
WordB == [kind |-> "b", ch |-> ""]
Ws == [kind |-> "ws", ch |-> ""]

\* r'\bWHAT\s+IS\s+I\?' and r'\bTAKE\s+I\b', both re.IGNORECASE
PatWhatIsI == <<WordB, Lit("w"), Lit("h"), Lit("a"), Lit("t"), Ws, Lit("i"), Lit("s"),
                Ws, Lit("i"), Lit("?")>>
PatTakeI == <<WordB, Lit("t"), Lit("a"), Lit("k"), Lit("e"), Ws, Lit("i"), WordB>>
ReplWhatIsIt == <<"w","h","a","t"," ","i","s"," ","i","t","?">>
ReplTakeIt == <<"t","a","k","e"," ","i","t">>

\* pattern.sub(_repl, text): leftmost non-overlapping matches from position i
RECURSIVE SubPattern(_, _, _, _)
SubPattern(s, i, pat, repl) ==
    IF i > Len(s) THEN <<>>
    ELSE LET e == MatchEnd(s, i, pat, 1) IN
         IF e # 0
         THEN preserve_case(SubSeq(s, i, e - 1), repl) \o SubPattern(s, e, pat, repl)
         ELSE <<s[i]>> \o SubPattern(s, i + 1, pat, repl)

\* the words the spellchecker dictionary knows, among those the model uses
KnownWords == {<<"c","a","t">>, <<"d","o","g">>, <<"i","t">>}

\* AWORD_PATTERN r'\b([Aa])([A-Z][a-zA-Z]+)\b' at position i: the position
\* after the match, or 0
AwordEnd(s, i) ==
    IF /\ i + 2 <= Len(s)
       /\ IsBoundary(s, i)
       /\ s[i] \in {"A", "a"}
       /\ IsUpper(s[i + 1])
       /\ IsLetter(s[i + 2])
    THEN LET e == CHOOSE j \in (i + 3)..(Len(s) + 1) :
                      /\ \A k \in (i + 2)..(j - 1) : IsLetter(s[k])
                      /\ (j > Len(s) \/ ~IsLetter(s[j]))
         IN IF IsBoundary(s, e) THEN e ELSE 0
    ELSE 0

split_aword(m) ==
    LET prefix == SubSeq(m, 1, 1)
        rest == SubSeq(m, 2, Len(m))
    IN IF LowerStr(rest) \in KnownWords THEN prefix \o <<" ">> \o rest ELSE m

RECURSIVE SubAword(_, _)
SubAword(s, i) ==
    IF i > Len(s) THEN <<>>
    ELSE LET e == AwordEnd(s, i) IN
         IF e # 0
         THEN split_aword(SubSeq(s, i, e - 1)) \o SubAword(s, e)
         ELSE <<s[i]>> \o SubAword(s, i + 1)

apply_simple_post_corrections(text) ==
    IF text = <<>> THEN text
    ELSE LET t1 == SubPattern(text, 1, PatWhatIsI, ReplWhatIsIt)
             t2 == SubPattern(t1, 1, PatTakeI, ReplTakeIt)
         IN SubAword(t2, 1)

\* the characters of [<>\|`~]; the backtick is written by its code point
Artifacts == {"<", ">", "|", "U0060", "~"}

\* text.split('\n')
RECURSIVE SplitLines(_)
SplitLines(s) ==
    IF \E i \in 1..Len(s) : s[i] = "\n"
    THEN LET n == CHOOSE i \in 1..Len(s) : s[i] = "\n" /\ \A j \in 1..(i - 1) : s[j] # "\n"
         IN <<SubSeq(s, 1, n - 1)>> \o SplitLines(SubSeq(s, n + 1, Len(s)))
    ELSE <<s>>

\* the lines kept by clean_ocr_text: more than one character, or 'a' / 'i'
RECURSIVE KeepLines(_)
KeepLines(raw_lines) ==
    IF raw_lines = <<>> THEN <<>>
    ELSE LET line == Strip(Head(raw_lines)) IN
         IF Len(line) > 1 \/ LowerStr(line) \in {<<"a">>, <<"i">>}
         THEN <<line>> \o KeepLines(Tail(raw_lines))
         ELSE KeepLines(Tail(raw_lines))

clean_ocr_text(text) ==
    IF text = <<>> THEN <<>>
    ELSE LET t1 == CollapseWhitespace(text)
             t2 == LStripSet(t1, Artifacts)
             t3 == RStripSet(t2, Artifacts)
             t4 == JoinSpace(KeepLines(SplitLines(t3)))
             t5 == normalize_punctuation_by_language(t4)
             t6 == apply_simple_post_corrections(t5)
         IN Strip(t6)

\* ------------------------------------------------------------------------
\* Detections, segments and candidates
\* ------------------------------------------------------------------------
Box(x0, y0, x1, y1) == <<<<x0, y0>>, <<x1, y0>>, <<x1, y1>>, <<x0, y1>>>>
Det(b, t, c) == [bbox |-> b, text |-> t, conf |-> c]

\* [[float(p[0]), float(p[1])] for p in det[0]], [] when a point is malformed
bbox_points(bbox) ==
    IF \A i \in 1..Len(bbox) : Len(bbox[i]) >= 2
    THEN [i \in 1..Len(bbox) |-> <<bbox[i][1], bbox[i][2]>>]
    ELSE <<>>

RECURSIVE SumConf(_)
SumConf(dets) == IF dets = <<>> THEN 0 ELSE Head(dets).conf + SumConf(Tail(dets))

\* mutant: the confidence floor is not applied
AcceptAnyConfidence(d) == TRUE

AboveFloor(d) == d.conf >= MIN_CONFIDENCE

\* filtered = [det for det in detections if float(det[2]) >= MIN_CONFIDENCE]
Filtered(dets) == SelectSeq(dets, AboveFloor)

\* the segments loop of one pass: a segment per kept detection whose cleaned
\* text is not empty
RECURSIVE Segments(_)
Segments(filtered) ==
    IF filtered = <<>> THEN <<>>
    ELSE LET det == Head(filtered)
             segment_text == clean_ocr_text(det.text)
         IN IF segment_text = <<>>
            THEN Segments(Tail(filtered))
            ELSE <<[text |-> segment_text,
                    bbox |-> bbox_points(det.bbox),
                    confidence |-> det.conf]>> \o Segments(Tail(filtered))

PassText(filtered) ==
    clean_ocr_text(Strip(JoinSpace([i \in 1..Len(filtered) |-> filtered[i].text])))

\* what one pass appends to its result list for the detections it received:
\* a one-element list, or nothing.  The confidence is the mean over the kept
\* detections, held as confSum / confN.
PassCandidates(detections, config, space) ==
    IF detections = <<>> THEN <<>>
    ELSE LET filtered == Filtered(detections)
             text == PassText(filtered)
         IN IF text # <<>> /\ filtered # <<>>
            THEN <<[text |-> text,
                    length |-> Len(text),
                    config |-> config,
                    engine |-> "easyocr",
                    confSum |-> SumConf(filtered),
                    confN |-> Len(filtered),
                    segments |-> Segments(filtered),
                    coordinate_space |-> space]>>
            ELSE <<>>

\* the passes of a request, in the order the code runs them
PassOrder == <<"original", "inverted", "adaptive", "otsu", "grayscale", "inverted_grayscale">>
Passes == Range(PassOrder)
OriginalPasses == {"original", "inverted"}
PreprocessPasses == Passes \ OriginalPasses

ConfigOf(p) ==
    CASE p = "original" -> "original_easyocr"
      [] p = "inverted" -> "inverted_easyocr"
      [] p = "adaptive" -> "preprocess_adaptive"
      [] p = "otsu" -> "preprocess_otsu"
      [] p = "grayscale" -> "preprocess_grayscale"
      [] p = "inverted_grayscale" -> "inverted_preprocess_grayscale"

\* the two unmodified-image passes tag their segments 'original'; a
\* preprocessing pass tags them with its own config name
SpaceOf(p) == IF p \in OriginalPasses THEN "original" ELSE ConfigOf(p)

\* ------------------------------------------------------------------------
\* CandidateSelector
\* ------------------------------------------------------------------------
\* mutant: every configuration has the default priority
FlatPriority(config_name) == DEFAULT_CONFIG_PRIORITY

get_config_priority(config_name) ==
    IF config_name = "" THEN DEFAULT_CONFIG_PRIORITY
    ELSE IF config_name = "original_easyocr" THEN 3
    ELSE IF config_name = "resized_easyocr" THEN 2
    ELSE IF config_name \in {"preprocess_adaptive", "preprocess_otsu", "preprocess_grayscale"}
         THEN 1
    ELSE DEFAULT_CONFIG_PRIORITY

\* a.confidence >= b.confidence, > : means compared by cross multiplication
ConfGeq(a, b) == a.confSum * b.confN >= b.confSum * a.confN
ConfGt(a, b) == a.confSum * b.confN > b.confSum * a.confN
ConfAtLeast(a, hundredths) == a.confSum >= hundredths * a.confN

\* mutant: the first candidate instead of the most confident one
FirstCandidate(cands) == cands[1]

\* max(easyocr_original, key=confidence): the first candidate of maximal
\* confidence
MaxByConfidence(cands) ==
    cands[CHOOSE i \in 1..Len(cands) :
              /\ \A j \in 1..Len(cands) : ConfGeq(cands[i], cands[j])
              /\ \A j \in 1..(i - 1) : ConfGt(cands[i], cands[j])]

\* [w.lower() for w in text.split()]
LowerWords(text) == LET ws == SplitWords(text) IN [i \in 1..Len(ws) |-> LowerStr(ws[i])]

Occurrences(words, w) == Cardinality({i \in 1..Len(words) : words[i] = w})

RECURSIVE SumSeq(_)
SumSeq(q) == IF q = <<>> THEN 0 ELSE Head(q) + SumSeq(Tail(q))

\* the word_freq dict after the loop over all_results (lines 1516-1521): a
\* word's count grows by one for each of its occurrences
word_freq(all_results) ==
    LET wl == [i \in 1..Len(all_results) |-> LowerWords(all_results[i].text)]
        keys == UNION {Range(wl[i]) : i \in 1..Len(all_results)}
    IN [w \in keys |-> SumSeq([i \in 1..Len(all_results) |-> Occurrences(wl[i], w)])]

\* sum(word_freq.get(w, 1) for w in set(words))
RECURSIVE SumFreq(_, _)
SumFreq(wf, wordset) ==
    IF wordset = {} THEN 0
    ELSE LET w == CHOOSE x \in wordset : TRUE
         IN (IF w \in DOMAIN wf THEN wf[w] ELSE 1) + SumFreq(wf, wordset \ {w})

\* mutant: the score without its length term
ScoreWithoutLength(r, wf) ==
    LET words == Range(LowerWords(r.text))
        W == IF words = {} THEN 1 ELSE Cardinality(words)
        F == SumFreq(wf, words)
    IN [num |-> r.confSum * W
                + (get_config_priority(r.config) * CONFIG_PRIORITY_WEIGHT) * r.confN * W
                + WORD_FREQUENCY_WEIGHT * F * r.confN,
        den |-> r.confN * W]

\* score(r) as the fraction num / den:
\*   confidence * 100 + length + priority * 4.0 + avg_freq * 6.0
score(r, wf) ==
    LET words == Range(LowerWords(r.text))
        W == IF words = {} THEN 1 ELSE Cardinality(words)
        F == SumFreq(wf, words)
    IN [num |-> r.confSum * W
                + (r.length + get_config_priority(r.config) * CONFIG_PRIORITY_WEIGHT) * r.confN * W
                + WORD_FREQUENCY_WEIGHT * F * r.confN,
        den |-> r.confN * W]

ScoreGeq(a, b) == a.num * b.den >= b.num * a.den
ScoreGt(a, b) == a.num * b.den > b.num * a.den

\* all_results.sort(key=score, reverse=True); all_results[0]: the sort is
\* stable, so the first candidate of maximal score
BestByScore(all_results) ==
    LET wf == word_freq(all_results)
        sc == [i \in 1..Len(all_results) |-> score(all_results[i], wf)]
    IN all_results[CHOOSE i \in 1..Len(all_results) :
                       /\ \A j \in 1..Len(all_results) : ScoreGeq(sc[i], sc[j])
                       /\ \A j \in 1..(i - 1) : ScoreGt(sc[i], sc[j])]

\* mutant: the high-confidence short-circuit is left out
NoShortCircuit(easyocr_original) == <<>>

\* lines 1483-1491 of ocr(): the candidate that short-circuits the request,
\* as a list of at most one element
ShortCircuit(easyocr_original) ==
    IF easyocr_original # <<>>
       /\ ConfAtLeast(MaxByConfidence(easyocr_original), HIGH_CONFIDENCE_THRESHOLD)
    THEN <<MaxByConfidence(easyocr_original)>>
    ELSE <<>>

\* ------------------------------------------------------------------------
\* Engine outputs used by the model
\* ------------------------------------------------------------------------
TxtHi == <<"h", "i", " ", "h", "i", " ", "h", "i">>
TxtHello == <<"h", "e", "l", "l", "o">>
TxtNoise == <<"n", "o">>
TxtArtifact == <<"<", "|">>

DetsNone == <<>>
DetsLow == <<Det(Box(0, 0, 2, 1), TxtNoise, 5)>>
DetsMid == <<Det(Box(0, 0, 2, 1), TxtHi, 50)>>
DetsHigh == <<Det(Box(0, 0, 2, 1), TxtHello, 96)>>
DetsMixed == <<Det(Box(0, 0, 2, 1), TxtHi, 50), Det(Box(0, 2, 2, 3), TxtNoise, 5)>>
DetsArtifact == <<Det(Box(0, 0, 2, 1), TxtArtifact, 90)>>

\* what reader.readtext may return: with one request in flight, and (smaller)
\* with two
RichOutputs == {DetsNone, DetsLow, DetsMid, DetsHigh, DetsMixed, DetsArtifact}
CoarseOutputs == {DetsNone}

\* PassCandidates for every output and pass of the model, evaluated once
PassResult == [o \in RichOutputs, p \in Passes |-> PassCandidates(o, ConfigOf(p), SpaceOf(p))]

\* ------------------------------------------------------------------------
\* GeometryMerger
\* ------------------------------------------------------------------------
\* Coordinates are integers and the arithmetic is exact.  A rect carries
\* mid_y2 = 2 * mid_y, and every comparison with a decimal factor is
\* multiplied out, so that no quantity leaves the integers.
Min2(a, b) == IF a <= b THEN a ELSE b
Max2(a, b) == IF a >= b THEN a ELSE b
Abs(a) == IF a >= 0 THEN a ELSE 0 - a
MinOf(S) == CHOOSE x \in S : \A y \in S : x <= y
MaxOf(S) == CHOOSE x \in S : \A y \in S : x >= y

bbox_to_rect(bbox) ==
    LET xs == {bbox[i][1] : i \in 1..Len(bbox)}
        ys == {bbox[i][2] : i \in 1..Len(bbox)}
        x_min == MinOf(xs)
        x_max == MaxOf(xs)
        y_min == MinOf(ys)
        y_max == MaxOf(ys)
    IN [x_min |-> x_min, x_max |-> x_max, y_min |-> y_min, y_max |-> y_max,
        mid_y2 |-> y_min + y_max,
        height |-> Max2(1, y_max - y_min),
        width |-> Max2(1, x_max - x_min)]

\* mutant: blocks that overlap enough in x merge whatever their gap
MergeAnyGap(upper, lower) ==
    LET x_overlap == Min2(upper.x_max, lower.x_max) - Max2(upper.x_min, lower.x_min)
    IN 100 * x_overlap >= 65 * Max2(1, Min2(upper.width, lower.width))

should_merge_vertical(upper, lower) ==
    LET swap == upper.y_min > lower.y_min
        u == IF swap THEN lower ELSE upper
        l == IF swap THEN upper ELSE lower
        x_overlap == Min2(u.x_max, l.x_max) - Max2(u.x_min, l.x_min)
        width_min == Min2(u.width, l.width)
        h_min == Min2(u.height, l.height)
        h_max == Max2(u.height, l.height)
        \* height_ratio < 0.6
        flat == 10 * h_min < 6 * Max2(1, h_max)
        \* overlap_threshold, in hundredths
        overlap_threshold == IF flat THEN 65 ELSE 45
        vertical_gap == l.y_min - u.y_max
    IN IF x_overlap <= 0 THEN FALSE
       \* overlap_ratio < overlap_threshold
       ELSE IF 100 * x_overlap < overlap_threshold * Max2(1, width_min) THEN FALSE
       ELSE IF vertical_gap < 0 THEN TRUE
       ELSE IF vertical_gap < 10 THEN TRUE
       \* vertical_gap > min(12, max(heights) * 0.3)
       ELSE IF vertical_gap > 12 \/ 10 * vertical_gap > 3 * h_max THEN FALSE
       ELSE TRUE

\* the union bounding box written into a line's rect (lines 386-392 and
\* 421-427): width and height are recomputed without the floor of 1
UnionRect(lr, r) ==
    LET x_min == Min2(lr.x_min, r.x_min)
        x_max == Max2(lr.x_max, r.x_max)
        y_min == Min2(lr.y_min, r.y_min)
        y_max == Max2(lr.y_max, r.y_max)
    IN [x_min |-> x_min, x_max |-> x_max, y_min |-> y_min, y_max |-> y_max,
        mid_y2 |-> y_min + y_max,
        height |-> y_max - y_min,
        width |-> x_max - x_min]

\* list.sort / sorted with a key of two numbers: the order of the positions of
\* keys, stable as Python's sort is
KeyLess(k, m) == k[1] < m[1] \/ (k[1] = m[1] /\ k[2] < m[2])
StableOrder(keys) ==
    LET n == Len(keys)
        Before(i, j) == \/ KeyLess(keys[i], keys[j])
                        \/ (~KeyLess(keys[j], keys[i]) /\ i < j)
        rank(i) == Cardinality({j \in 1..n : Before(j, i)}) + 1
    IN [p \in 1..n |-> CHOOSE i \in 1..n : rank(i) = p]
SortedByKey(seq, keys) ==
    LET order == StableOrder(keys) IN [p \in 1..Len(seq) |-> seq[order[p]]]

\* sort(key=lambda s: (s["_rect"]["y_min"], s["_rect"]["x_min"]))
SortSegments(segs) ==
    SortedByKey(segs, [i \in 1..Len(segs) |-> <<segs[i]._rect.y_min, segs[i]._rect.x_min>>])
\* lines.sort(key=lambda L: L["rect"]["y_min"])
SortLines(ls) ==
    SortedByKey(ls, [i \in 1..Len(ls) |-> <<ls[i].rect.y_min, 0>>])

\* lines 351-361: the segments kept, each with its rect.  pos is the position
\* of the segment in the input list; it stands for the identity of the dict.
Wellformed(seg) == Strip(seg.text) # <<>> /\ seg.bbox # <<>> /\ Len(seg.bbox) = 4
RECURSIVE Processed(_)
Processed(segs) ==
    IF segs = <<>> THEN <<>>
    ELSE LET seg == Head(segs) IN
         IF ~Wellformed(seg) THEN Processed(Tail(segs))
         ELSE <<[pos |-> seg.pos, text |-> seg.text, bbox |-> seg.bbox,
                 confidence |-> seg.confidence,
                 _rect |-> bbox_to_rect(seg.bbox)]>> \o Processed(Tail(segs))

\* mutant: the segment replaces the segments of the line
OnlyNewSegment(line_segments, seg) == <<seg>>

\* line["segments"].append(seg)
AppendSegment(line_segments, seg) == Append(line_segments, seg)

\* mutant: a segment joins a line only when it does not start right of it
SameLineTouching(r, lr) ==
    LET same_row == 10 * Abs(r.mid_y2 - lr.mid_y2) <= 12 * Max2(r.height, lr.height)
        horizontal_gap == r.x_min - lr.x_max
    IN same_row /\ horizontal_gap <= 0

\* the test of lines 376-382 for a segment rect r and a line rect lr
SameLine(r, lr) ==
    LET \* abs(r.mid_y - lr.mid_y) <= max(r.height, lr.height) * 0.60
        same_row == 10 * Abs(r.mid_y2 - lr.mid_y2) <= 12 * Max2(r.height, lr.height)
        horizontal_gap == r.x_min - lr.x_max
    IN same_row /\ horizontal_gap <= 40

\* one turn of the Phase-1 loop: the segment joins the first line that takes
\* it, else it opens a line of its own
PlaceSegment(ls, seg) ==
    LET hit == {i \in 1..Len(ls) : SameLine(seg._rect, ls[i].rect)} IN
    IF hit = {} THEN Append(ls, [segments |-> <<seg>>, rect |-> seg._rect])
    ELSE LET i == MinOf(hit) IN
         [ls EXCEPT ![i] = [segments |-> AppendSegment(ls[i].segments, seg),
                            rect |-> UnionRect(ls[i].rect, seg._rect)]]

RECURSIVE Phase1(_, _)
Phase1(ls, processed) ==
    IF processed = <<>> THEN ls
    ELSE Phase1(PlaceSegment(ls, Head(processed)), Tail(processed))

\* one turn of the Phase-2 loop
MergeLine(mg, line) ==
    IF mg = <<>> THEN <<line>>
    ELSE LET prev == mg[Len(mg)] IN
         IF should_merge_vertical(prev.rect, line.rect)
         THEN [mg EXCEPT ![Len(mg)] = [segments |-> prev.segments \o line.segments,
                                       rect |-> UnionRect(prev.rect, line.rect)]]
         ELSE Append(mg, line)

RECURSIVE Phase2(_, _)
Phase2(mg, ls) ==
    IF ls = <<>> THEN mg ELSE Phase2(MergeLine(mg, Head(ls)), Tail(ls))

\* '\n'.join(filter(None, parts))
RECURSIVE JoinNewline(_)
JoinNewline(parts) ==
    IF parts = <<>> THEN <<>>
    ELSE IF Head(parts) = <<>> THEN JoinNewline(Tail(parts))
    ELSE LET rest == JoinNewline(Tail(parts)) IN
         IF rest = <<>> THEN Head(parts) ELSE Head(parts) \o <<"\n">> \o rest

\* the loop of lines 450-459: the texts of the rows of a line.  A row ends
\* where mid_y jumps by more than line_gap_threshold = max(8, height * 0.35).
RECURSIVE LinesText(_, _, _, _)
LinesText(segs, current_line, current_y2, height) ==
    IF segs = <<>>
    THEN IF current_line = <<>> THEN <<>> ELSE <<Strip(JoinSpace(current_line))>>
    ELSE LET seg == Head(segs)
             jump == Abs(seg._rect.mid_y2 - current_y2)
             \* abs(mid_y - current_y) > max(8, height * 0.35)
             breaks == (jump > 16 /\ 100 * jump > 70 * height) /\ current_line # <<>>
         IN IF breaks
            THEN <<Strip(JoinSpace(current_line))>>
                 \o LinesText(Tail(segs), <<seg.text>>, seg._rect.mid_y2, height)
            ELSE LinesText(Tail(segs), Append(current_line, seg.text),
                           seg._rect.mid_y2, height)

\* a child of an output line: the segment without its _rect
Child(s) == [pos |-> s.pos, text |-> s.text, bbox |-> s.bbox, confidence |-> s.confidence]

\* Phase 3 for one merged line: a one-element list, or nothing.  The
\* confidence is the mean over the children, held as confSum / confN.
OutputLine(line) ==
    LET segs == SortSegments(line.segments) IN
    IF segs = <<>> THEN <<>>
    ELSE LET clean_text == Strip(JoinNewline(LinesText(segs, <<>>, segs[1]._rect.mid_y2,
                                                        line.rect.height)))
             r == line.rect
         IN IF clean_text = <<>> THEN <<>>
            ELSE <<[text |-> clean_text,
                    bbox |-> Box(r.x_min, r.y_min, r.x_max, r.y_max),
                    confSum |-> SumSeq([i \in 1..Len(segs) |-> segs[i].confidence]),
                    confN |-> Max2(1, Len(segs)),
                    children |-> [i \in 1..Len(segs) |-> Child(segs[i])]]>>

RECURSIVE Phase3(_)
Phase3(mg) == IF mg = <<>> THEN <<>> ELSE OutputLine(Head(mg)) \o Phase3(Tail(mg))

merge_segments_into_lines(segs) ==
    IF segs = <<>> THEN <<>>
    ELSE Phase3(Phase2(<<>>, SortLines(Phase1(<<>>, SortSegments(Processed(segs))))))

\* ------------------------------------------------------------------------
\* State
\* ------------------------------------------------------------------------
\* thread 0 runs __main__; threads 1 and 2 each serve one /api/ocr request
\* (app.run(threaded=True))
Requests == {1, 2}
Threads == {0} \cup Requests

VARIABLES
    easyocr_reader,  \* the module global: 0 is None, n > 0 the n-th Reader built
    constructed,     \* number of easyocr.Reader objects built so far
    outs,            \* the outputs reader.readtext can produce in this run
    darks,           \* the values has_dark_background(img) can take in this run
    pc,              \* per thread: where it is
    stage,           \* per thread: the caller of get_easyocr_reader
    reader,          \* per thread: what get_easyocr_reader returned (0 is None)
    cur,             \* per request: the pass being run
    dark,            \* per request: has_dark_background(img)
    timeout_seconds, \* per request: the deadline given to run_with_timeout
    deadline,        \* per request: "pending", or what the operation was doing
                     \*   when the deadline of the current join elapsed
    timeouts,        \* deadlines elapsed so far
    wst,             \* per request and pass: "running" while the worker thread of
                     \*   that call executes reader.readtext, "late" once it has
                     \*   ended after its call had returned, else "idle"
    cells,           \* the result / exception lists of the calls
    lastcall,        \* per request: how the run_with_timeout call that has just
                     \*   returned ended (kept until the request's next step)
    easyocr_original,     \* per request: the list returned by ocr_with_easyocr
    easyocr_preprocessed, \* per request: the list of ocr_with_preprocess_easyocr
    apply_deskew,    \* per request: the flag given to the preprocessing
    released,        \* per request: calls of release_gpu_memory so far
    best_candidate,  \* per request: best_candidate of ocr(), <<>> is None
    response,        \* per request: the response of ocr()
    segments,        \* the list given to merge_segments_into_lines
    mpc,             \* "call" before merge_segments_into_lines has run,
                     \*   "return" after it, "off" when it is not called
    lines,           \* its local lines after Phase 1 and the sort
    merged,          \* its local merged after Phase 2
    output,          \* the list it returns
    options,         \* the request's target_lang ("" is None or empty),
                     \*   return_overlay, include_segment_data, overlay_boxes_only
    translated_text, \* ocr()'s local translated_text, <<>> is None
    response_payload, \* the JSON object ocr() answers with, by key
    overlay_segments, \* ocr()'s local overlay_segments, <<>> is None
    overlay_payload, \* ocr()'s local overlay_payload, <<>> is None or []
    draw_faults,     \* per overlay line: what drawing it came to in the call of
                     \*   render_translated_overlay, <<>> when it was not called
    raw_text,        \* the string given to the TextNormalizer
    cleaned,         \* <<clean_ocr_text(raw_text)>> once it was called, else <<>>
    normalized,      \* <<normalize_punctuation_by_language(raw_text)>> once it
                     \*   was called, else <<>>
    npc,             \* "on" when the TextNormalizer is called on raw_text,
                     \*   else "off"
    tpc              \* "translate" before line 1553, "overlay" before line
                     \*   1560, "sent" after line 1593, "off" when the answer
                     \*   is not built

reqvars == <<cur, dark, timeout_seconds, deadline, timeouts, wst, cells, lastcall,
             easyocr_original, easyocr_preprocessed, apply_deskew, released,
             best_candidate, response>>
mergevars == <<segments, mpc, lines, merged, output>>
respvars == <<options, translated_text, response_payload, overlay_segments, overlay_payload,
              draw_faults, tpc>>
normvars == <<raw_text, cleaned, normalized, npc>>
vars == <<easyocr_reader, constructed, outs, darks, pc, stage, reader, reqvars, mergevars,
          respvars, normvars>>

\* a value in a result / exception list, tagged with the call whose operation
\* produced it; <<0, "default">> tags default_return, <<0, "none">> is None
DefaultValue == [src |-> <<0, "default">>, dets |-> <<>>]
NoValue == [src |-> <<0, "none">>, dets |-> <<>>]
EmptyCell == [result |-> DefaultValue, exception |-> NoValue]

NoCall == [p |-> "", kind |-> "none", val |-> NoValue, deadline |-> "pending", alive |-> FALSE]
NoResponse == [kind |-> "none", best |-> <<>>]

InitCommon ==
    /\ easyocr_reader = 0
    /\ constructed = 0
    /\ stage = [t \in Threads |-> IF t = 0 THEN "main" ELSE "orig"]
    /\ reader = [t \in Threads |-> 0]
    /\ cur = [r \in Requests |-> "original"]
    /\ dark = [r \in Requests |-> FALSE]
    /\ timeout_seconds = [r \in Requests |-> 15]
    /\ deadline = [r \in Requests |-> "pending"]
    /\ timeouts = 0
    /\ wst = [r \in Requests |-> [p \in Passes |-> "idle"]]
    /\ cells = [c \in Requests \X Passes |-> EmptyCell]
    /\ lastcall = [r \in Requests |-> NoCall]
    /\ easyocr_original = [r \in Requests |-> <<>>]
    /\ easyocr_preprocessed = [r \in Requests |-> <<>>]
    /\ apply_deskew = [r \in Requests |-> FALSE]
    /\ released = [r \in Requests |-> 0]
    /\ best_candidate = [r \in Requests |-> <<>>]
    /\ response = [r \in Requests |-> NoResponse]

\* merge_segments_into_lines is not called
MergeOff ==
    /\ segments = <<>>
    /\ mpc = "off"
    /\ lines = <<>>
    /\ merged = <<>>
    /\ output = <<>>

\* the TextNormalizer is not called on its own
NormalizeOff ==
    /\ raw_text = <<>>
    /\ cleaned = <<>>
    /\ normalized = <<>>
    /\ npc = "off"

\* the answer of ocr() past the selection is not built
RespondOff ==
    /\ options = [target_lang |-> "", return_overlay |-> FALSE,
                  include_segment_data |-> FALSE, overlay_boxes_only |-> FALSE]
    /\ translated_text = <<>>
    /\ response_payload = <<>>
    /\ overlay_segments = <<>>
    /\ overlay_payload = <<>>
    /\ draw_faults = <<>>
    /\ tpc = "off"

\* two requests served concurrently
Init ==
    /\ InitCommon
    /\ MergeOff
    /\ RespondOff
    /\ NormalizeOff
    /\ outs = CoarseOutputs
    /\ darks = {FALSE}
    /\ pc = [t \in Threads |-> IF t = 0 THEN "ger_check" ELSE "idle"]

\* one request, every engine output
InitOne ==
    /\ InitCommon
    /\ MergeOff
    /\ RespondOff
    /\ NormalizeOff
    /\ outs = RichOutputs
    /\ darks = BOOLEAN
    /\ pc = [t \in Threads |-> IF t = 0 THEN "ger_check" ELSE IF t = 1 THEN "idle" ELSE "off"]

\* ------------------------------------------------------------------------
\* get_easyocr_reader
\* ------------------------------------------------------------------------
\* line 170: the unlocked test of the global, then check_gpu_available()
GerCheck(t) ==
    /\ pc[t] = "ger_check"
    /\ IF easyocr_reader # 0
       THEN pc' = [pc EXCEPT ![t] = "ger_ret"]
       ELSE \E use_gpu \in {"True", "None", "False"} :
              pc' = [pc EXCEPT ![t] = IF use_gpu = "False" THEN "ger_cpu" ELSE "ger_gpu"]
    /\ UNCHANGED <<easyocr_reader, constructed, outs, darks, mergevars, respvars, normvars, stage, reader, reqvars>>

\* mutant: the global is assigned before the constructor has finished, so a
\* failed attempt leaves a handle behind that was never completely built
HalfBuiltAttempt(t, at, onfail) ==
    /\ pc[t] = at
    /\ \E ok \in BOOLEAN :
         IF ok
         THEN /\ constructed' = constructed + 1
              /\ easyocr_reader' = constructed + 1
              /\ pc' = [pc EXCEPT ![t] = "ger_ret"]
         ELSE /\ easyocr_reader' = constructed + 1
              /\ pc' = [pc EXCEPT ![t] = onfail]
              /\ UNCHANGED constructed
    /\ UNCHANGED <<outs, darks, mergevars, respvars, normvars, stage, reader, reqvars>>

\* one easyocr.Reader(languages, gpu=...) attempt: it builds a new Reader and
\* assigns the global, or raises and control goes to `onfail`
ReaderAttempt(t, at, onfail) ==
    /\ pc[t] = at
    /\ \E ok \in BOOLEAN :
         IF ok
         THEN /\ constructed' = constructed + 1
              /\ easyocr_reader' = constructed + 1
              /\ pc' = [pc EXCEPT ![t] = "ger_ret"]
         ELSE /\ pc' = [pc EXCEPT ![t] = onfail]
              /\ UNCHANGED <<easyocr_reader, constructed>>
    /\ UNCHANGED <<outs, darks, mergevars, respvars, normvars, stage, reader, reqvars>>

GerGpu(t) == ReaderAttempt(t, "ger_gpu", "ger_cpu")
GerCpu(t) == ReaderAttempt(t, "ger_cpu", "ger_ret")

\* the first pass of a group, or the step after the group when it has none
FirstPc(st) == IF st = "orig" THEN "rwt_start" ELSE "pre_prepare"

\* line 218: return easyocr_reader (the global as it is now), and the
\* `if reader is None: return []` of the caller
GerRet(t) ==
    /\ pc[t] = "ger_ret"
    /\ reader' = [reader EXCEPT ![t] = easyocr_reader]
    /\ pc' = [pc EXCEPT ![t] =
                 IF stage[t] = "main" THEN "serving"
                 ELSE IF easyocr_reader = 0
                      THEN (IF stage[t] = "orig" THEN "decide" ELSE "select")
                      ELSE FirstPc(stage[t])]
    /\ UNCHANGED <<easyocr_reader, constructed, outs, darks, mergevars, respvars, normvars, stage, reqvars>>

\* ------------------------------------------------------------------------
\* run_with_timeout
\* ------------------------------------------------------------------------
\* a request arrives once app.run() serves; has_dark_background(img) is a
\* property of its image
Start(r) ==
    /\ pc[r] = "idle"
    /\ pc[0] = "serving"
    /\ \E d \in darks : dark' = [dark EXCEPT ![r] = d]
    /\ pc' = [pc EXCEPT ![r] = "ger_check"]
    /\ UNCHANGED <<easyocr_reader, constructed, outs, darks, mergevars, respvars, normvars, stage, reader, cur, timeout_seconds,
                   deadline, timeouts, wst, cells, lastcall, easyocr_original,
                   easyocr_preprocessed, apply_deskew, released, best_candidate, response>>

\* mutant: one pair of lists shared by every call (a module-level list)
SharedCell(r, p) == <<1, "original">>

\* lines 222-223: the result and exception lists are created by the call, so
\* each call has its own
ResultCell(r, p) == <<r, p>>

InCall(q) == pc[q] \in {"rwt_join", "rwt_alive"}

\* a call that still holds a reference to cell c
Read(c) == \E q \in Requests : InCall(q) /\ ResultCell(q, cur[q]) = c

\* lines 231-233: thread.start()
RwtStart(r) ==
    /\ pc[r] = "rwt_start"
    /\ wst' = [wst EXCEPT ![r][cur[r]] = "running"]
    /\ cells' = [cells EXCEPT ![ResultCell(r, cur[r])] = EmptyCell]
    /\ deadline' = [deadline EXCEPT ![r] = "pending"]
    /\ pc' = [pc EXCEPT ![r] = "rwt_join"]
    /\ lastcall' = [lastcall EXCEPT ![r] = NoCall]
    /\ UNCHANGED <<easyocr_reader, constructed, outs, darks, mergevars, respvars, normvars, stage, reader, cur, dark,
                   timeout_seconds, timeouts, easyocr_original,
                   easyocr_preprocessed, apply_deskew, released, best_candidate, response>>

\* target(): reader.readtext returns, result[0] is set and the thread ends.
\* A list that no call references any more is garbage and is not kept.
WorkerReturn(r, p) ==
    /\ wst[r][p] = "running"
    /\ \E o \in outs :
         cells' = IF Read(ResultCell(r, p))
                  THEN [cells EXCEPT ![ResultCell(r, p)].result = [src |-> <<r, p>>, dets |-> o]]
                  ELSE cells
    /\ wst' = [wst EXCEPT ![r][p] = IF InCall(r) /\ cur[r] = p THEN "idle" ELSE "late"]
    /\ UNCHANGED <<easyocr_reader, constructed, outs, darks, mergevars, respvars, normvars, pc, stage, reader, cur, dark,
                   timeout_seconds, deadline, timeouts, lastcall, easyocr_original,
                   easyocr_preprocessed, apply_deskew, released, best_candidate, response>>

\* target(): reader.readtext raises, exception[0] is set and the thread ends
WorkerRaise(r, p) ==
    /\ wst[r][p] = "running"
    /\ cells' = IF Read(ResultCell(r, p))
                THEN [cells EXCEPT ![ResultCell(r, p)].exception = [src |-> <<r, p>>, dets |-> <<>>]]
                ELSE cells
    /\ wst' = [wst EXCEPT ![r][p] = IF InCall(r) /\ cur[r] = p THEN "idle" ELSE "late"]
    /\ UNCHANGED <<easyocr_reader, constructed, outs, darks, mergevars, respvars, normvars, pc, stage, reader, cur, dark,
                   timeout_seconds, deadline, timeouts, lastcall, easyocr_original,
                   easyocr_preprocessed, apply_deskew, released, best_candidate, response>>

\* timeout_seconds pass while the caller is in thread.join(timeout_seconds);
\* the step records whether the operation was still running at that instant
DeadlineElapse(r) ==
    /\ pc[r] = "rwt_join"
    /\ deadline[r] = "pending"
    /\ timeouts < MaxTimeouts
    /\ deadline' = [deadline EXCEPT ![r] =
                       IF wst[r][cur[r]] = "running" THEN "hit_running" ELSE "hit_done"]
    /\ timeouts' = timeouts + 1
    /\ UNCHANGED <<easyocr_reader, constructed, outs, darks, mergevars, respvars, normvars, pc, stage, reader, cur, dark,
                   timeout_seconds, wst, cells, lastcall, easyocr_original,
                   easyocr_preprocessed, apply_deskew, released, best_candidate, response>>

\* mutant: thread.join() without a timeout
JoinWithoutTimeout(r) == wst[r][cur[r]] # "running"

\* line 234: thread.join(timeout_seconds) returns when the thread has ended or
\* the timeout has passed
JoinReturns(r) == wst[r][cur[r]] # "running" \/ deadline[r] # "pending"

RwtJoin(r) ==
    /\ pc[r] = "rwt_join"
    /\ JoinReturns(r)
    /\ pc' = [pc EXCEPT ![r] = "rwt_alive"]
    /\ UNCHANGED <<easyocr_reader, constructed, outs, darks, mergevars, respvars, normvars, stage, reader, reqvars>>

\* ------------------------------------------------------------------------
\* The passes of ocr_with_easyocr and ocr_with_preprocess_easyocr
\* ------------------------------------------------------------------------
\* the pass after p in its group, "" after the last one
NextPass(r, p) ==
    CASE p = "original" -> IF dark[r] THEN "inverted" ELSE ""
      [] p = "inverted" -> ""
      [] p = "adaptive" -> "otsu"
      [] p = "otsu" -> "grayscale"
      [] p = "grayscale" -> "inverted_grayscale"
      [] p = "inverted_grayscale" -> ""

\* the end of a pass that contributed `cands`: append them, go to the next pass
\* of the group or, after the last, release_gpu_memory() and return the list
Advance(r, cands) ==
    LET p == cur[r]
        n == NextPass(r, p)
    IN /\ IF p \in OriginalPasses
          THEN /\ easyocr_original' = [easyocr_original EXCEPT ![r] = @ \o cands]
               /\ UNCHANGED easyocr_preprocessed
          ELSE /\ easyocr_preprocessed' = [easyocr_preprocessed EXCEPT ![r] = @ \o cands]
               /\ UNCHANGED easyocr_original
       /\ IF n # ""
          THEN /\ cur' = [cur EXCEPT ![r] = n]
               /\ pc' = [pc EXCEPT ![r] = "rwt_start"]
               /\ UNCHANGED released
          ELSE /\ pc' = [pc EXCEPT ![r] = IF p \in OriginalPasses THEN "decide" ELSE "select"]
               /\ released' = [released EXCEPT ![r] = @ + 1]
               /\ UNCHANGED cur

\* lines 236-243 and the pass around the call: a live thread gives
\* default_return, a stored exception is raised (and caught by the pass, which
\* then contributes nothing), otherwise result[0] is returned and turned into
\* at most one candidate
RwtAlive(r) ==
    LET p == cur[r]
        c == cells[ResultCell(r, p)]
        alive == wst[r][p] = "running"
        kind == IF alive THEN "default"
                ELSE IF c.exception # NoValue THEN "raise" ELSE "value"
        val == IF alive THEN DefaultValue
               ELSE IF c.exception # NoValue THEN c.exception ELSE c.result
    IN /\ pc[r] = "rwt_alive"
       /\ lastcall' = [lastcall EXCEPT ![r] =
                          [p |-> p, kind |-> kind, val |-> val,
                           deadline |-> deadline[r], alive |-> alive]]
       /\ cells' = [cells EXCEPT ![ResultCell(r, p)] = EmptyCell]
       /\ Advance(r, IF kind = "raise" THEN <<>>
                     ELSE PassResult[val.dets, p])
       /\ deadline' = [deadline EXCEPT ![r] = "pending"]
       /\ UNCHANGED <<easyocr_reader, constructed, outs, darks, mergevars, respvars, normvars, stage, reader, dark, timeout_seconds,
                      timeouts, wst, apply_deskew, best_candidate, response>>

\* the image preparation inside the try of a pass raises before the engine is
\* called: the pass contributes nothing
PrepFail(r) ==
    /\ pc[r] = "rwt_start"
    /\ Advance(r, <<>>)
    /\ UNCHANGED <<easyocr_reader, constructed, outs, darks, mergevars, respvars, normvars, stage, reader, dark, timeout_seconds,
                   deadline, timeouts, wst, cells, lastcall, apply_deskew, best_candidate,
                   response>>

\* ------------------------------------------------------------------------
\* ocr()
\* ------------------------------------------------------------------------
\* mutant: the preprocessing passes keep the default deadline
DefaultTimeout(deskew) == 15

\* lines 1496-1502: the deadline of the preprocessing passes
preprocess_timeout(deskew) == IF deskew THEN 30 ELSE 15

\* lines 1481-1505: short-circuit on a high-confidence original candidate,
\* otherwise set up the preprocessing passes
Decide(r) ==
    /\ pc[r] = "decide"
    /\ best_candidate' = [best_candidate EXCEPT ![r] = ShortCircuit(easyocr_original[r])]
    /\ IF ShortCircuit(easyocr_original[r]) # <<>>
       THEN /\ pc' = [pc EXCEPT ![r] = "select"]
            /\ UNCHANGED <<stage, apply_deskew, timeout_seconds>>
       ELSE /\ apply_deskew' = [apply_deskew EXCEPT ![r] = Len(easyocr_original[r]) = 0]
            /\ timeout_seconds' = [timeout_seconds EXCEPT ![r] =
                                      preprocess_timeout(Len(easyocr_original[r]) = 0)]
            /\ stage' = [stage EXCEPT ![r] = "pre"]
            /\ pc' = [pc EXCEPT ![r] = "ger_check"]
    /\ lastcall' = [lastcall EXCEPT ![r] = NoCall]
    /\ UNCHANGED <<easyocr_reader, constructed, outs, darks, mergevars, respvars, normvars, reader, cur, dark, deadline, timeouts,
                   wst, cells, easyocr_original, easyocr_preprocessed, released,
                   response>>

\* line 1221: preprocess_image_advanced(img) is outside every try of
\* ocr_with_preprocess_easyocr; when it raises, ocr() answers with an error
PrePrepare(r) ==
    /\ pc[r] = "pre_prepare"
    /\ \E ok \in BOOLEAN :
         IF ok
         THEN /\ cur' = [cur EXCEPT ![r] = "adaptive"]
              /\ pc' = [pc EXCEPT ![r] = "rwt_start"]
              /\ UNCHANGED response
         ELSE /\ response' = [response EXCEPT ![r] = [kind |-> "error", best |-> <<>>]]
              /\ pc' = [pc EXCEPT ![r] = "done"]
              /\ UNCHANGED cur
    /\ UNCHANGED <<easyocr_reader, constructed, outs, darks, mergevars, respvars, normvars, stage, reader, dark, timeout_seconds,
                   deadline, timeouts, wst, cells, lastcall, easyocr_original,
                   easyocr_preprocessed, apply_deskew, released, best_candidate>>

all_results(r) == easyocr_original[r] \o easyocr_preprocessed[r]

\* lines 1509-1548: 'No text detected' without candidates, else the
\* short-circuit candidate or the best by score
Select(r) ==
    /\ pc[r] = "select"
    /\ response' = [response EXCEPT ![r] =
          IF all_results(r) = <<>>
          THEN [kind |-> "No text detected", best |-> <<>>]
          ELSE [kind |-> "ok",
                best |-> IF best_candidate[r] # <<>> THEN best_candidate[r]
                         ELSE <<BestByScore(all_results(r))>>]]
    /\ pc' = [pc EXCEPT ![r] = "done"]
    /\ lastcall' = [lastcall EXCEPT ![r] = NoCall]
    /\ UNCHANGED <<easyocr_reader, constructed, outs, darks, mergevars, respvars, normvars, stage, reader, cur, dark,
                   timeout_seconds, deadline, timeouts, wst, cells,
                   easyocr_original, easyocr_preprocessed, apply_deskew, released,
                   best_candidate>>

Next ==
    \/ \E t \in Threads : GerCheck(t)
    \/ \E t \in Threads : GerGpu(t)
    \/ \E t \in Threads : GerCpu(t)
    \/ \E t \in Threads : GerRet(t)
    \/ \E r \in Requests : Start(r)
    \/ \E r \in Requests : RwtStart(r)
    \/ \E r \in Requests : PrepFail(r)
    \/ \E r \in Requests, p \in Passes : WorkerReturn(r, p)
    \/ \E r \in Requests, p \in Passes : WorkerRaise(r, p)
    \/ \E r \in Requests : DeadlineElapse(r)
    \/ \E r \in Requests : RwtJoin(r)
    \/ \E r \in Requests : RwtAlive(r)
    \/ \E r \in Requests : Decide(r)
    \/ \E r \in Requests : PrePrepare(r)
    \/ \E r \in Requests : Select(r)

Spec == Init /\ [][Next]_vars
SpecOne == InitOne /\ [][Next]_vars

\* the scheduler runs a caller that can leave join() or test is_alive()
FairSpecOne ==
    /\ SpecOne
    /\ \A r \in Requests : WF_vars(RwtJoin(r)) /\ WF_vars(RwtAlive(r))

\* ------------------------------------------------------------------------
\* merge_segments_into_lines on its own
\* ------------------------------------------------------------------------
\* the rects of the segments given to the merger: two neighbours on a row, a
\* third that only the union of the two reaches, a row 4 below the first, a
\* row far below, a point, a tall box 12 below the first row, and a box
\* without width beside a tall box and a box to the left of both
Rects == {<<0, 0, 30, 10>>, <<35, 1, 60, 11>>, <<100, 0, 130, 10>>,
          <<0, 14, 30, 24>>, <<0, 40, 30, 50>>, <<10, 5, 10, 5>>,
          <<0, 22, 30, 62>>,
          <<50, 0, 50, 10>>, <<100, 0, 130, 40>>, <<0, 20, 30, 30>>}

\* a segment as the passes build it (lines 1129-1133); its text is the
\* letter of its rect and its confidence is above MIN_CONFIDENCE
RectText(q) == <<LowerSeq[1 + ((q[1] + q[2] + q[4]) % 26)]>>
SegmentOf(q) ==
    [text |-> RectText(q), bbox |-> Box(q[1], q[2], q[3], q[4]),
     confidence |-> 50 + q[2]]

\* two words side by side on a row, 10 px apart, read with confidence 0.9
SegHello == [text |-> <<"H", "e", "l", "l", "o">>, bbox |-> Box(0, 0, 50, 20), confidence |-> 90]
SegWorld == [text |-> <<"W", "o", "r", "l", "d">>, bbox |-> Box(60, 0, 110, 20), confidence |-> 90]

\* the segments a pass can hand over: well-formed ones, one whose corner
\* points could not be read (bbox_points = []), one with a three-point
\* polygon and one whose text is blank
SegmentShapes ==
    {SegmentOf(q) : q \in Rects}
    \cup {[text |-> <<"x">>, bbox |-> <<>>, confidence |-> 80],
          [text |-> <<"y">>, bbox |-> <<<<0, 0>>, <<30, 0>>, <<30, 10>>>>, confidence |-> 80],
          [text |-> <<" ">>, bbox |-> Box(0, 0, 30, 10), confidence |-> 80]}
    \cup {SegHello, SegWorld}

SegmentLists ==
    UNION {[1..n -> SegmentShapes] : n \in 0..MaxSegs}

InitMerge ==
    /\ InitCommon
    /\ RespondOff
    /\ NormalizeOff
    /\ outs = CoarseOutputs
    /\ darks = {FALSE}
    /\ pc = [t \in Threads |-> "off"]
    /\ \E shapes \in SegmentLists :
          segments = [i \in 1..Len(shapes) |->
                         [pos |-> i, text |-> shapes[i].text, bbox |-> shapes[i].bbox,
                          confidence |-> shapes[i].confidence]]
    /\ mpc = "call"
    /\ lines = <<>>
    /\ merged = <<>>
    /\ output = <<>>

\* lines 347-348: an empty list is answered at once
MergeEmpty ==
    /\ mpc = "call"
    /\ segments = <<>>
    /\ mpc' = "return"
    /\ output' = <<>>
    /\ UNCHANGED <<segments, lines, merged>>
    /\ UNCHANGED <<easyocr_reader, constructed, outs, darks, pc, stage, reader, reqvars, respvars, normvars>>

\* lines 350-480: clean and sort, Phase 1, sort, Phase 2, Phase 3
Merge ==
    /\ mpc = "call"
    /\ segments # <<>>
    /\ LET ls == SortLines(Phase1(<<>>, SortSegments(Processed(segments))))
           mg == Phase2(<<>>, ls)
       IN /\ lines' = ls
          /\ merged' = mg
          /\ output' = Phase3(mg)
    /\ mpc' = "return"
    /\ UNCHANGED segments
    /\ UNCHANGED <<easyocr_reader, constructed, outs, darks, pc, stage, reader, reqvars, respvars, normvars>>

NextMerge == MergeEmpty \/ Merge

SpecMerge == InitMerge /\ [][NextMerge]_vars

\* ------------------------------------------------------------------------
\* The selection of ocr() on its own
\* ------------------------------------------------------------------------
\* reader.readtext on a picture of the words 'hello world': nothing, a
\* misread and the right reading, both with confidence 0.50
TxtHelloWord == <<"h", "e", "l", "l", "o", " ", "w", "o", "r", "d">>
TxtHelloWorld == <<"h", "e", "l", "l", "o", " ", "w", "o", "r", "l", "d">>
DetsWord == <<Det(Box(0, 0, 2, 1), TxtHelloWord, 50)>>
DetsWorld == <<Det(Box(0, 0, 2, 1), TxtHelloWorld, 50)>>
ReadingOutputs == {DetsNone, DetsWord, DetsWorld}

\* the candidates of a pass group whose passes returned got[p]
RECURSIVE GroupCandidates(_, _)
GroupCandidates(passes, got) ==
    IF passes = <<>> THEN <<>>
    ELSE PassCandidates(got[Head(passes)], ConfigOf(Head(passes)), SpaceOf(Head(passes)))
         \o GroupCandidates(Tail(passes), got)

\* request 1 has run its passes without short-circuit and stands before the
\* selection (line 1509); no deadline has elapsed
InitSelect ==
    /\ MergeOff
    /\ RespondOff
    /\ NormalizeOff
    /\ outs = ReadingOutputs
    /\ darks = BOOLEAN
    /\ easyocr_reader = 1
    /\ constructed = 1
    /\ pc = [t \in Threads |-> IF t = 0 THEN "serving" ELSE IF t = 1 THEN "select" ELSE "off"]
    /\ stage = [t \in Threads |-> IF t = 0 THEN "main" ELSE IF t = 1 THEN "pre" ELSE "orig"]
    /\ reader = [t \in Threads |-> IF t = 2 THEN 0 ELSE 1]
    /\ cur = [r \in Requests |-> IF r = 1 THEN "inverted_grayscale" ELSE "original"]
    /\ \E d \in darks : \E got \in [Passes -> outs] :
          LET orig == GroupCandidates(IF d THEN <<"original", "inverted">>
                                      ELSE <<"original">>, got)
              pre == GroupCandidates(<<"adaptive", "otsu", "grayscale",
                                       "inverted_grayscale">>, got)
          IN /\ dark = [r \in Requests |-> r = 1 /\ d]
             /\ easyocr_original = [r \in Requests |-> IF r = 1 THEN orig ELSE <<>>]
             /\ easyocr_preprocessed = [r \in Requests |-> IF r = 1 THEN pre ELSE <<>>]
             /\ apply_deskew = [r \in Requests |-> r = 1 /\ orig = <<>>]
             /\ timeout_seconds = [r \in Requests |-> IF r = 1 /\ orig = <<>> THEN 30 ELSE 15]
    /\ deadline = [r \in Requests |-> "pending"]
    /\ timeouts = 0
    /\ wst = [r \in Requests |-> [p \in Passes |-> "idle"]]
    /\ cells = [c \in Requests \X Passes |-> EmptyCell]
    /\ lastcall = [r \in Requests |-> NoCall]
    /\ released = [r \in Requests |-> IF r = 1 THEN 2 ELSE 0]
    /\ best_candidate = [r \in Requests |-> <<>>]
    /\ response = [r \in Requests |-> NoResponse]

NextSelect == \E r \in Requests : Select(r)

SpecSelect == InitSelect /\ [][NextSelect]_vars

\* ------------------------------------------------------------------------
\* The answer of ocr() past the selection: translation and overlay
\* ------------------------------------------------------------------------
\* lines 1445-1451: the options of a request; an overlay asked for without a
\* target language and without overlay_boxes_only is translated to 'ZH'
RequestOptions(target_lang, return_overlay, include_segment_data, overlay_boxes_only) ==
    [target_lang |-> IF return_overlay /\ target_lang = "" /\ ~overlay_boxes_only
                     THEN "ZH" ELSE target_lang,
     return_overlay |-> return_overlay,
     include_segment_data |-> include_segment_data,
     overlay_boxes_only |-> overlay_boxes_only]

\* what the DeepL request of one translate_text_with_deepl call comes to:
\* "error" (no API key, a failed request, an answer without translations),
\* "empty" (a translation that is the empty string) or "text"
DeeplReplies == {"error", "empty", "text"}

\* the translation DeepL gives for text: some string that is not empty
DeeplText(text, target_lang) == <<target_lang>> \o text

\* translate_text_with_deepl: <<>> is None, <<t>> is the string t
translate_text_with_deepl(text, target_lang, reply) ==
    CASE reply = "error" -> <<>>
      [] reply = "empty" -> << <<>> >>
      [] reply = "text" -> <<DeeplText(text, target_lang)>>

\* the truth value Python gives to None or a string
Truthy(v) == v # <<>> /\ v[1] # <<>>

\* the segments of a candidate as a list of distinct objects
Positioned(segs) ==
    [i \in 1..Len(segs) |->
        [pos |-> i, text |-> segs[i].text, bbox |-> segs[i].bbox,
         confidence |-> segs[i].confidence]]

TRANSLATION_ERROR == "Translation failed or returned empty text."

\* the loop of translate_segment_lines; replies[i] is what the DeepL request
\* for the i-th merged line comes to (there are no more lines than segments)
RECURSIVE TranslateLines(_, _, _, _)
TranslateLines(merged_lines, i, target_lang, replies) ==
    IF i > Len(merged_lines) THEN <<>>
    ELSE LET line == merged_lines[i]
             text == Strip(line.text)
             translation == translate_text_with_deepl(text, target_lang, replies[i])
             line_copy ==
                 IF Truthy(translation)
                 THEN [translated_text |-> translation] @@ line
                 ELSE [translated_text |-> <<>>,
                       translation_error |-> TRANSLATION_ERROR] @@ line
         IN (IF text = <<>> THEN <<>> ELSE <<line_copy>>)
            \o TranslateLines(merged_lines, i + 1, target_lang, replies)

translate_segment_lines(segs, target_lang, replies) ==
    TranslateLines(merge_segments_into_lines(Positioned(segs)), 1, target_lang, replies)

\* seg.get("translated_text")
TranslationOf(seg) ==
    IF "translated_text" \in DOMAIN seg THEN seg.translated_text ELSE <<>>

\* what drawing one line comes to: "none", "outline" (a draw.text call of
\* the outline raises, lines 714-717) or "text" (load_overlay_font,
\* wrap_text_to_width, measure_text, draw.rectangle or the draw.text of line
\* 720 raises)
DrawFaults == {"none", "outline", "text"}

\* lines 551-575: the line has a four-point bbox and a translation to write
Drawn(seg, boxes_only) ==
    /\ Len(seg.bbox) = 4
    /\ ~boxes_only
    /\ Truthy(TranslationOf(seg))

\* the faults the drawing of line_segments can meet: only a drawn line has one
FaultsFor(line_segments, boxes_only) ==
    {f \in [1..Len(line_segments) -> DrawFaults] :
        \A i \in 1..Len(line_segments) :
            ~Drawn(line_segments[i], boxes_only) => f[i] = "none"}

\* an exception leaves render_translated_overlay: only the outline's
\* draw.text calls stand in a try
RenderRaises(line_segments, boxes_only, faults) ==
    \E i \in 1..Len(line_segments) :
        Drawn(line_segments[i], boxes_only) /\ faults[i] = "text"

\* render_translated_overlay when no exception leaves it: <<>> is None, else
\* the picture, held as what was written over each line
render_translated_overlay(line_segments, boxes_only, faults) ==
    IF line_segments = <<>> THEN <<>>
    ELSE <<[written |->
              [i \in 1..Len(line_segments) |->
                  IF Drawn(line_segments[i], boxes_only)
                  THEN [text |-> TranslationOf(line_segments[i])[1],
                        outlined |-> faults[i] # "outline"]
                  ELSE [text |-> <<>>, outlined |-> FALSE]]]>>

HasSegments(candidate) == candidate.segments # <<>>

\* mutant: the overlay is placed with the segments of the selected candidate
SelectedSegments(best, originals) == best.segments

\* lines 1561-1574: the segments of the selected candidate when they are in
\* the frame of the original image, else those of the most confident
\* candidate of easyocr_original that has segments; <<>> is None
OverlaySegments(best, originals) ==
    LET own == IF best.coordinate_space = "original" THEN best.segments ELSE <<>>
        with_segments == SelectSeq(originals, HasSegments)
    IN IF own = <<>> /\ with_segments # <<>>
       THEN MaxByConfidence(with_segments).segments
       ELSE own

\* lines 1543-1558: the payload of the selected candidate and the translation
\* of its text
Translate(r) ==
    /\ pc[r] = "done"
    /\ response[r].kind = "ok"
    /\ tpc = "translate"
    /\ \E reply \in DeeplReplies :
          LET best == response[r].best[1]
              base == [text |-> best.text,
                       confidence |-> <<best.confSum, best.confN>>,
                       engine |-> best.engine,
                       mode |-> best.config]
              with_segments ==
                  IF options.include_segment_data /\ best.segments # <<>>
                  THEN [segments |-> best.segments] @@ base ELSE base
              translation ==
                  IF options.target_lang # ""
                  THEN translate_text_with_deepl(best.text, options.target_lang, reply)
                  ELSE <<>>
          IN /\ translated_text' = translation
             /\ response_payload' =
                   IF Truthy(translation)
                   THEN [translated_text |-> translation,
                         target_lang |-> options.target_lang] @@ with_segments
                   ELSE with_segments
    /\ tpc' = "overlay"
    /\ UNCHANGED <<options, overlay_segments, overlay_payload, draw_faults>>
    /\ UNCHANGED <<easyocr_reader, constructed, outs, darks, pc, stage, reader, reqvars,
                   mergevars, normvars>>

\* ocr()'s overlay_payload (lines 1575-1579); <<>> is None or []
OverlayPayload(segs, replies) ==
    IF options.overlay_boxes_only
    THEN (IF segs # <<>> THEN merge_segments_into_lines(Positioned(segs)) ELSE <<>>)
    ELSE IF options.target_lang # ""
    THEN (IF segs # <<>> THEN translate_segment_lines(segs, options.target_lang, replies)
          ELSE <<>>)
    ELSE <<>>

\* lines 1560-1597: the overlay, when asked for, and the answer; an exception
\* out of render_translated_overlay is caught at line 1595
Overlay(r) ==
    /\ pc[r] = "done"
    /\ tpc = "overlay"
    /\ LET best == response[r].best[1]
           segs == OverlaySegments(best, easyocr_original[r])
           boxes_only == options.overlay_boxes_only \/ options.target_lang = ""
       IN \E replies \in [1..Len(segs) -> DeeplReplies] :
          \E faults \in FaultsFor(OverlayPayload(segs, replies), boxes_only) :
             LET payload == OverlayPayload(segs, replies)
                 overlay_base64 ==
                     IF payload # <<>>
                     THEN render_translated_overlay(payload, boxes_only, faults)
                     ELSE <<>>
                 with_image == [annotated_image |-> overlay_base64] @@ response_payload
             IN IF ~options.return_overlay
                THEN UNCHANGED <<overlay_segments, overlay_payload, draw_faults,
                                 response_payload, response>>
                ELSE /\ overlay_segments' = segs
                     /\ overlay_payload' = payload
                     /\ draw_faults' = IF payload # <<>> THEN faults ELSE <<>>
                     /\ IF payload # <<>> /\ RenderRaises(payload, boxes_only, faults)
                        THEN /\ response' = [response EXCEPT ![r] =
                                                [kind |-> "error", best |-> <<>>]]
                             /\ response_payload' = [error |-> "rendering"]
                        ELSE /\ response_payload' =
                                   IF overlay_base64 = <<>> THEN response_payload
                                   ELSE IF options.include_segment_data /\ payload # <<>>
                                   THEN [segments |-> payload] @@ with_image
                                   ELSE with_image
                             /\ UNCHANGED response
    /\ tpc' = "sent"
    /\ UNCHANGED <<options, translated_text>>
    /\ UNCHANGED <<easyocr_reader, constructed, outs, darks, pc, stage, reader, mergevars,
                   normvars, cur, dark, timeout_seconds, deadline, timeouts, wst, cells, lastcall,
                   easyocr_original, easyocr_preprocessed, apply_deskew, released,
                   best_candidate>>

\* reader.readtext on a picture of two rows of text: nothing, both rows, a
\* faint reading of the first row, or the first row and a stroke read as '|'
DetsTwoRows == <<Det(Box(0, 0, 50, 20), <<"h", "i">>, 90),
                 Det(Box(0, 100, 50, 120), <<"y", "o", "u">>, 80)>>
DetsFaintRow == <<Det(Box(0, 0, 50, 20), <<"h", "i">>, 40)>>
DetsStroke == <<Det(Box(0, 0, 50, 20), <<"h", "i">>, 90),
                Det(Box(0, 100, 50, 120), <<"|">>, 50)>>
RespondOutputs == {DetsNone, DetsTwoRows, DetsFaintRow, DetsStroke}

TargetLangs == {"", "JA"}

\* the passes that detect something in the requests answered here
RespondPasses == {"original", "adaptive", "otsu"}

\* request 1 has run its passes without short-circuit and stands before the
\* selection (line 1509) with the options it was sent with
InitRespond ==
    /\ MergeOff
    /\ NormalizeOff
    /\ outs = RespondOutputs
    /\ darks = {FALSE}
    /\ easyocr_reader = 1
    /\ constructed = 1
    /\ pc = [t \in Threads |-> IF t = 0 THEN "serving" ELSE IF t = 1 THEN "select" ELSE "off"]
    /\ stage = [t \in Threads |-> IF t = 0 THEN "main" ELSE IF t = 1 THEN "pre" ELSE "orig"]
    /\ reader = [t \in Threads |-> IF t = 2 THEN 0 ELSE 1]
    /\ cur = [r \in Requests |-> IF r = 1 THEN "inverted_grayscale" ELSE "original"]
    /\ \E d \in darks :
       \E got \in {g \in [Passes -> outs] :
                      \A p \in Passes \ RespondPasses : g[p] = DetsNone} :
          LET orig == GroupCandidates(IF d THEN <<"original", "inverted">>
                                      ELSE <<"original">>, got)
              pre == GroupCandidates(<<"adaptive", "otsu", "grayscale",
                                       "inverted_grayscale">>, got)
          IN /\ dark = [r \in Requests |-> r = 1 /\ d]
             /\ easyocr_original = [r \in Requests |-> IF r = 1 THEN orig ELSE <<>>]
             /\ easyocr_preprocessed = [r \in Requests |-> IF r = 1 THEN pre ELSE <<>>]
             /\ apply_deskew = [r \in Requests |-> r = 1 /\ orig = <<>>]
             /\ timeout_seconds = [r \in Requests |-> IF r = 1 /\ orig = <<>> THEN 30 ELSE 15]
    /\ deadline = [r \in Requests |-> "pending"]
    /\ timeouts = 0
    /\ wst = [r \in Requests |-> [p \in Passes |-> "idle"]]
    /\ cells = [c \in Requests \X Passes |-> EmptyCell]
    /\ lastcall = [r \in Requests |-> NoCall]
    /\ released = [r \in Requests |-> IF r = 1 THEN 2 ELSE 0]
    /\ best_candidate = [r \in Requests |-> <<>>]
    /\ response = [r \in Requests |-> NoResponse]
    /\ \E target_lang \in TargetLangs, return_overlay \in BOOLEAN,
          include_segment_data \in BOOLEAN, overlay_boxes_only \in BOOLEAN :
          options = RequestOptions(target_lang, return_overlay, include_segment_data,
                                   overlay_boxes_only)
    /\ translated_text = <<>>
    /\ response_payload = <<>>
    /\ overlay_segments = <<>>
    /\ overlay_payload = <<>>
    /\ draw_faults = <<>>
    /\ tpc = "translate"

NextRespond ==
    \/ \E r \in Requests : Select(r)
    \/ \E r \in Requests : Translate(r)
    \/ \E r \in Requests : Overlay(r)

SpecRespond == InitRespond /\ [][NextRespond]_vars

\* ------------------------------------------------------------------------
\* The TextNormalizer on its own
\* ------------------------------------------------------------------------
\* the characters of the strings it is given: a blank, an edge artifact, a
\* letter kept when alone, another letter, a period in both forms and an
\* ideograph
TextChars == {" ", "<", "a", "b", ".", "U3002", "U4E2D"}

Texts == UNION {[1..n -> TextChars] : n \in 0..MaxText}

InitNormalize ==
    /\ InitCommon
    /\ MergeOff
    /\ RespondOff
    /\ outs = CoarseOutputs
    /\ darks = {FALSE}
    /\ pc = [t \in Threads |-> "off"]
    /\ raw_text \in Texts
    /\ cleaned = <<>>
    /\ normalized = <<>>
    /\ npc = "on"

\* clean_ocr_text(raw_text)
Clean ==
    /\ npc = "on"
    /\ cleaned = <<>>
    /\ cleaned' = <<clean_ocr_text(raw_text)>>
    /\ UNCHANGED <<raw_text, normalized, npc>>
    /\ UNCHANGED <<easyocr_reader, constructed, outs, darks, pc, stage, reader, reqvars,
                   mergevars, respvars>>

\* normalize_punctuation_by_language(raw_text)
Normalize ==
    /\ npc = "on"
    /\ normalized = <<>>
    /\ normalized' = <<normalize_punctuation_by_language(raw_text)>>
    /\ UNCHANGED <<raw_text, cleaned, npc>>
    /\ UNCHANGED <<easyocr_reader, constructed, outs, darks, pc, stage, reader, reqvars,
                   mergevars, respvars>>

NextNormalize == Clean \/ Normalize

SpecNormalize == InitNormalize /\ [][NextNormalize]_vars

\* ------------------------------------------------------------------------
\* Claims
\* ------------------------------------------------------------------------
Executing(r) == {p \in Passes : wst[r][p] = "running"}

\* C1: under every interleaving of concurrent first calls of
\* get_easyocr_reader the Reader is constructed exactly once and every caller
\* that gets a handle gets that same handle.
C1_SingleInitialization ==
    /\ constructed <= 1
    /\ \A t, u \in Threads : (reader[t] # 0 /\ reader[u] # 0) => reader[t] = reader[u]

\* C2: a run_with_timeout call whose operation completed before the deadline
\* returns the operation's value or raises its failure; a call whose operation
\* had not completed at the deadline returns default_return and leaves the
\* operation running.
C2_DeadlineDecidesOutcome ==
    \A r \in Requests :
        lastcall[r].kind # "none" =>
            IF lastcall[r].deadline = "hit_running"
            THEN lastcall[r].kind = "default" /\ lastcall[r].alive
            ELSE /\ lastcall[r].kind \in {"value", "raise"}
                 /\ lastcall[r].val.src = <<r, lastcall[r].p>>

\* C3: once the deadline of a run_with_timeout call has elapsed, the call
\* eventually returns to its caller, also when the operation never ends.
C3_CallerReturnsAfterDeadline ==
    \A r \in Requests :
        (pc[r] = "rwt_join" /\ deadline[r] # "pending") ~> (pc[r] \notin {"rwt_join", "rwt_alive"})

\* a call has just returned default_return while its operation is still running
C3_Witness ==
    \E r \in Requests :
        /\ lastcall[r].kind = "default"
        /\ lastcall[r].deadline = "hit_running"
        /\ wst[r][lastcall[r].p] = "running"

\* C4: a run_with_timeout call observes at most one result, its own: what it
\* returns or raises was produced by its own operation, which was then not
\* abandoned; an abandoned operation's late value or failure is returned
\* neither by its call (which returned default_return) nor by any later call.
C4_OnlyOwnResult ==
    \A r \in Requests :
        /\ lastcall[r].kind \in {"value", "raise"} =>
              /\ lastcall[r].val.src = <<r, lastcall[r].p>>
              /\ ~lastcall[r].alive
        /\ lastcall[r].kind = "default" => lastcall[r].val = DefaultValue

\* an abandoned operation has ended late and a later call has returned a value
C4_Witness ==
    \E r, q \in Requests : \E p \in Passes :
        /\ wst[r][p] = "late"
        /\ lastcall[q].kind = "value"
        /\ <<q, lastcall[q].p>> # <<r, p>>

\* C5: within one request no reader.readtext starts while an earlier one of
\* the same request is still executing, abandoned ones included.
C5_PassesNeverOverlap ==
    \A r \in Requests : Cardinality(Executing(r)) <= 1

\* C6: no two reader.readtext invocations of different requests execute on the
\* shared handle at the same time.
C6_RequestsSerializeOnHandle ==
    \A r, q \in Requests :
        (r # q /\ reader[r] = reader[q]) => (Executing(r) = {} \/ Executing(q) = {})

\* some candidate of the unmodified-image passes has confidence >= 0.95
HighOriginal(r) ==
    \E i \in 1..Len(easyocr_original[r]) :
        ConfAtLeast(easyocr_original[r][i], HIGH_CONFIDENCE_THRESHOLD)

PastOriginal(r) == pc[r] \in {"select", "done"} \/ stage[r] = "pre"

\* C7: with a candidate >= 0.95 from the unmodified image, that candidate is
\* accepted and the request never enters a preprocessing pass (none is begun,
\* none runs, none contributes); without one, ocr() runs the preprocessing:
\* it calls ocr_with_preprocess_easyocr, which goes through its four passes in
\* order once it has its reader and its preprocessed images.
C7_ShortCircuitSkipsPreprocessing ==
    \A r \in Requests :
        /\ cur[r] \in PreprocessPasses => stage[r] = "pre"
        /\ stage[r] = "pre" => ~HighOriginal(r)
        /\ (PastOriginal(r) /\ HighOriginal(r)) =>
              /\ stage[r] = "orig"
              /\ easyocr_preprocessed[r] = <<>>
              /\ \A p \in PreprocessPasses : wst[r][p] = "idle"
              /\ pc[r] = "done" =>
                    /\ response[r].kind = "ok"
                    /\ response[r].best[1] \in Range(easyocr_original[r])
                    /\ ConfAtLeast(response[r].best[1], HIGH_CONFIDENCE_THRESHOLD)
        /\ (pc[r] \in {"select", "done"} /\ ~HighOriginal(r)) => stage[r] = "pre"
        /\ (pc[r] = "select" /\ stage[r] = "pre") =>
              IF reader[r] # 0 THEN cur[r] = "inverted_grayscale"
              ELSE cur[r] \notin PreprocessPasses

\* a request whose image is dark has answered with the short-circuit candidate,
\* the only candidate of its two unmodified-image passes
C7_Witness ==
    \E r \in Requests :
        /\ pc[r] = "done"
        /\ HighOriginal(r)
        /\ response[r].kind = "ok"
        /\ Len(easyocr_original[r]) = 1
        /\ dark[r]

\* C8: when an unmodified-image pass produced a candidate with confidence
\* >= 0.95, the returned candidate has no lower confidence than any candidate
\* of any pass.
C8_HighConfidenceWins ==
    \A r \in Requests :
        (response[r].kind = "ok" /\ HighOriginal(r)) =>
            \A i \in 1..Len(all_results(r)) : ConfGeq(response[r].best[1], all_results(r)[i])

\* a short-circuited response chosen among two unmodified-image candidates
C8_Witness ==
    \E r \in Requests :
        /\ response[r].kind = "ok"
        /\ HighOriginal(r)
        /\ Len(easyocr_original[r]) = 2
        /\ \E i \in 1..2 : ConfGt(response[r].best[1], easyocr_original[r][i])

CandidateOk(c) == ConfAtLeast(c, MIN_CONFIDENCE) /\ c.text # <<>>

AllBelowFloor(dets) == \A i \in 1..Len(dets) : dets[i].conf < MIN_CONFIDENCE

\* C9: every emitted candidate, hence the selected one, has confidence >= 0.1
\* and a non-empty text; a pass whose detections are all below the floor emits
\* no candidate; a request without candidates answers 'No text detected', and
\* any other answers with one of its candidates.
C9_FloorAndSentinel ==
    /\ [](\A r \in Requests :
            /\ \A i \in 1..Len(all_results(r)) : CandidateOk(all_results(r)[i])
            /\ response[r].kind = "ok" =>
                  /\ response[r].best[1] \in Range(all_results(r))
                  /\ CandidateOk(response[r].best[1])
            /\ response[r].kind = "No text detected" => all_results(r) = <<>>
            /\ (pc[r] = "done" /\ all_results(r) = <<>>) =>
                  response[r].kind \in {"No text detected", "error"})
    /\ [][\A r \in Requests :
            (lastcall'[r].kind = "value" /\ lastcall[r].kind = "none"
             /\ AllBelowFloor(lastcall'[r].val.dets)) =>
                (all_results(r))' = all_results(r)]_vars

\* the last pass of a request returned only detections below the floor and the
\* request has no candidate
C9_Witness ==
    \E r \in Requests :
        /\ pc[r] = "select"
        /\ lastcall[r].kind = "value"
        /\ lastcall[r].val.dets # <<>>
        /\ AllBelowFloor(lastcall[r].val.dets)
        /\ all_results(r) = <<>>

\* the children of the output lines that are the input segment at position i
ChildrenAt(i) ==
    {km \in {<<k, m>> : k \in 1..Len(output), m \in 1..MaxSegs} :
        /\ km[2] <= Len(output[km[1]].children)
        /\ output[km[1]].children[km[2]].pos = i}

\* C10 as stated: every segment of every list given to
\* merge_segments_into_lines is a child of exactly one output line.
C10_EverySegmentInOneLine ==
    mpc = "return" =>
        \A i \in 1..Len(segments) : Cardinality(ChildrenAt(i)) = 1

\* C10: every segment given to merge_segments_into_lines that has a non-blank
\* text and a bbox of four points is a child of exactly one output line, once
\* and unchanged; a segment with a blank text or another bbox is a child of
\* no line.
C10_WellformedSegmentInOneLine ==
    mpc = "return" =>
        \A i \in 1..Len(segments) :
            /\ Cardinality(ChildrenAt(i)) = IF Wellformed(segments[i]) THEN 1 ELSE 0
            /\ \A km \in ChildrenAt(i) : output[km[1]].children[km[2]] = segments[i]

\* three segments were given, one of them without a usable bbox, and the
\* other two were merged into one line
C10_Witness ==
    /\ mpc = "return"
    /\ Len(segments) = 3
    /\ \E i \in 1..3 : ~Wellformed(segments[i])
    /\ Len(output) = 1
    /\ Len(output[1].children) = 2

\* the (y_min, x_min) of the bbox of an output line
LineKey(line) == <<line.bbox[1][2], line.bbox[1][1]>>

\* C11: the lines returned by merge_segments_into_lines are in top-to-bottom,
\* left-to-right order: the (y_min, x_min) of consecutive lines never
\* decreases lexicographically.
C11_LinesInReadingOrder ==
    mpc = "return" =>
        \A k \in 1..(Len(output) - 1) :
            ~KeyLess(LineKey(output[k + 1]), LineKey(output[k]))

\* an output line as the caller sees it: the children without the position
\* tag of the model
Visible(line) ==
    [text |-> line.text, bbox |-> line.bbox,
     confSum |-> line.confSum, confN |-> line.confN,
     children |-> [m \in 1..Len(line.children) |->
                      [text |-> line.children[m].text,
                       bbox |-> line.children[m].bbox,
                       confidence |-> line.children[m].confidence]]]
VisibleLines(out) == [k \in 1..Len(out) |-> Visible(out[k])]

\* the list `segs` in the order given by the permutation P of its positions
Shuffled(segs, P) == [i \in 1..Len(segs) |-> segs[P[i]]]

\* C12: merging is order-independent: for every permutation of the list
\* given to merge_segments_into_lines the function returns the same lines
\* (text, bbox, confidence, children and their order).
C12_OrderIndependent ==
    mpc = "return" =>
        \A P \in Permutations(1..Len(segments)) :
            VisibleLines(merge_segments_into_lines(Shuffled(segments, P)))
                = VisibleLines(output)

\* C13: after Phase 1 no row cluster holds two segments whose vertical
\* centers differ by more than 0.60 * max(of the heights of the two).
C13_ClusterCentersClose ==
    mpc = "return" =>
        \A k \in 1..Len(lines) :
            \A a, b \in Range(lines[k].segments) :
                10 * Abs(a._rect.mid_y2 - b._rect.mid_y2)
                    <= 12 * Max2(a._rect.height, b._rect.height)

\* the number of candidates whose text contains the lower-cased word w
CandidatesWith(results, w) ==
    Cardinality({i \in 1..Len(results) : w \in Range(LowerWords(results[i].text))})

\* C14: the word-frequency map built for the selection maps each lower-cased
\* word to the number of candidates whose text contains it (once per
\* candidate, however often the word occurs in it).
C14_WordCountedOncePerCandidate ==
    \A r \in Requests :
        (pc[r] = "select" /\ best_candidate[r] = <<>>) =>
            \A w \in DOMAIN word_freq(all_results(r)) :
                word_freq(all_results(r))[w] = CandidatesWith(all_results(r), w)

\* the candidates among which ocr() selects by score, when it does
Scored(r) ==
    IF pc[r] = "select" /\ best_candidate[r] = <<>> THEN all_results(r) ELSE <<>>

RECURSIVE SumCandidatesWith(_, _)
SumCandidatesWith(results, wordset) ==
    IF wordset = {} THEN 0
    ELSE LET w == CHOOSE x \in wordset : TRUE
         IN CandidatesWith(results, w) + SumCandidatesWith(results, wordset \ {w})
StatedScore(c, results) ==
    LET words == Range(LowerWords(c.text))
        W == IF words = {} THEN 1 ELSE Cardinality(words)
    IN [num |-> c.confSum * W
                + (c.length + get_config_priority(c.config) * 4) * c.confN * W
                + 6 * SumCandidatesWith(results, words) * c.confN,
        den |-> c.confN * W]

\* C16: without a short-circuit the returned candidate has maximal score,
\* and among the candidates of maximal score it is the one of the earliest
\* pass.
C16_MaximalScoreEarliestPass ==
    \A r \in Requests :
        (pc[r] = "done" /\ response[r].kind = "ok" /\ best_candidate[r] = <<>>) =>
            LET res == all_results(r)
                sc == [i \in 1..Len(res) |-> StatedScore(res[i], res)]
            IN \E i \in 1..Len(res) :
                  /\ res[i] = response[r].best[1]
                  /\ \A j \in 1..Len(res) : ScoreGeq(sc[i], sc[j])
                  /\ \A j \in 1..(i - 1) : ScoreGt(sc[i], sc[j])

\* the scenario of C17 after the selection of request r: c1 is the candidate
\* 'hello word' of the unmodified-original pass, c2 the candidate
\* 'hello world' of the otsu pass, both of confidence 0.5; 'world' is in two
\* candidates and 'word' in one
HelloScenario(r, c1, c2) ==
    /\ pc[r] = "done"
    /\ c1 \in Range(easyocr_original[r])
    /\ c1.text = TxtHelloWord /\ c1.config = "original_easyocr"
    /\ c1.confSum = 50 * c1.confN
    /\ c2 \in Range(easyocr_preprocessed[r])
    /\ c2.text = TxtHelloWorld /\ c2.config = "preprocess_otsu"
    /\ c2.confSum = 50 * c2.confN
    /\ CandidatesWith(all_results(r), <<"w", "o", "r", "l", "d">>) = 2
    /\ CandidatesWith(all_results(r), <<"w", "o", "r", "d">>) = 1

\* C17 as stated: in the scenario the second candidate scores strictly
\* higher than the first and is the one selected.
C17_CorrectedTranscriptSelected ==
    \A r \in Requests : \A c1, c2 \in Range(all_results(r)) :
        HelloScenario(r, c1, c2) =>
            LET wf == word_freq(all_results(r)) IN
            /\ ScoreGt(score(c2, wf), score(c1, wf))
            /\ response[r].best = <<c2>>

\* the word-frequency term avg_freq * 6.0 of a candidate, as a fraction
FrequencyTerm(c, wf) ==
    LET words == Range(LowerWords(c.text)) IN
    [num |-> WORD_FREQUENCY_WEIGHT * SumFreq(wf, words), den |-> Cardinality(words)]

\* C17: in the scenario the word-frequency term of the second candidate is
\* strictly larger than that of the first, but the first candidate scores
\* strictly higher (priority 3 against 1) and the second is not selected.
C17_OriginalOutscoresCorrected ==
    \A r \in Requests : \A c1, c2 \in Range(all_results(r)) :
        HelloScenario(r, c1, c2) =>
            LET wf == word_freq(all_results(r)) IN
            /\ ScoreGt(FrequencyTerm(c2, wf), FrequencyTerm(c1, wf))
            /\ ScoreGt(score(c1, wf), score(c2, wf))
            /\ response[r].kind = "ok"
            /\ response[r].best # <<c2>>

\* the scenario has happened: a request has selected among such candidates
C17_Witness ==
    \E r \in Requests : \E c1, c2 \in Range(all_results(r)) : HelloScenario(r, c1, c2)

\* the list given to the merger is two well-formed segments on one row
\* (centers within 0.60 * max(height)) that start at different x and lie at
\* most 40 px apart; lft is the position of the left one, rgt of the right
RowPair(lft, rgt) ==
    /\ mpc = "return"
    /\ Len(segments) = 2
    /\ {lft, rgt} = {1, 2}
    /\ Wellformed(segments[1]) /\ Wellformed(segments[2])
    /\ LET a == bbox_to_rect(segments[lft].bbox)
           b == bbox_to_rect(segments[rgt].bbox)
       IN /\ a.x_min < b.x_min
          /\ 10 * Abs(a.mid_y2 - b.mid_y2) <= 12 * Max2(a.height, b.height)
          /\ b.x_min - a.x_max <= 40

\* C18 as stated: two same-row segments at most 40 px apart end in one line
\* whose text is the left one, a single space, the right one.
C18_RowPairLeftToRight ==
    \A lft, rgt \in 1..2 :
        RowPair(lft, rgt) =>
            /\ Len(output) = 1
            /\ output[1].text = segments[lft].text \o <<" ">> \o segments[rgt].text

\* C18: 'Hello' and 'World' of the scenario are merged into the one line
\* 'Hello World'; two same-row segments at most 40 px apart end in one line
\* whose text has them in (y_min, x_min) order (input order on a tie), joined
\* by a single space when their centers differ by at most
\* max(8, 0.35 * height of the line) and by a line break otherwise.
C18_RowPairOneLine ==
    \A lft, rgt \in 1..2 :
        RowPair(lft, rgt) =>
            LET a == bbox_to_rect(segments[lft].bbox)
                b == bbox_to_rect(segments[rgt].bbox)
                leftFirst == ~KeyLess(<<b.y_min, b.x_min>>, <<a.y_min, a.x_min>>)
                fst == IF leftFirst THEN lft ELSE rgt
                snd == IF leftFirst THEN rgt ELSE lft
                jump == Abs(a.mid_y2 - b.mid_y2)
                height == Max2(a.y_max, b.y_max) - Min2(a.y_min, b.y_min)
                sep == IF jump > 16 /\ 100 * jump > 70 * height THEN "\n" ELSE " "
            IN /\ Len(output) = 1
               /\ output[1].text = segments[fst].text \o <<sep>> \o segments[snd].text
               /\ ({segments[1].text, segments[2].text} = {SegHello.text, SegWorld.text}
                     => output[1].text = SegHello.text \o <<" ">> \o SegWorld.text)

\* the scenario: 'Hello' and 'World' were given and one line 'Hello World'
\* has been returned
C18_Witness ==
    /\ RowPair(1, 2)
    /\ segments[1].text = SegHello.text /\ segments[1].bbox = SegHello.bbox
    /\ segments[2].text = SegWorld.text /\ segments[2].bbox = SegWorld.bbox
    /\ Len(output) = 1
    /\ output[1].text = <<"H", "e", "l", "l", "o", " ", "W", "o", "r", "l", "d">>

\* C19: a failure or timeout of a recognition pass, or of its image
\* preparation, never aborts the request: the request does not end in an
\* error, the failed pass contributes no candidate, the passes after it are
\* still gone through, and a request that has collected candidates answers
\* with one of them.
C19_PassFailureNeverAborts ==
    \A r \in Requests :
        /\ response[r].kind # "error"
        /\ lastcall[r].kind \in {"default", "raise"} =>
              \A c \in Range(all_results(r)) : c.config # ConfigOf(lastcall[r].p)
        /\ (pc[r] \in {"select", "done"} /\ stage[r] = "pre" /\ reader[r] # 0) =>
              cur[r] = "inverted_grayscale"
        /\ (pc[r] = "done" /\ all_results(r) # <<>>) =>
              /\ response[r].kind = "ok"
              /\ response[r].best[1] \in Range(all_results(r))

\* the keys ocr() gives its answer on the paths without failure
PayloadKeys == {"text", "confidence", "engine", "mode", "segments", "translated_text",
                "target_lang", "annotated_image"}

\* C20: when a translation was asked for and translate_text_with_deepl
\* returned None, the answer still carries the text of the selected candidate
\* and has translated_text = null together with a note on the error; and
\* every overlay line that went through translation carries its text and
\* either a translation or translated_text = null with a note on the error.
C20_TranslationFailureSurfaced ==
    \A r \in Requests :
        /\ (response[r].kind = "ok" /\ tpc \in {"overlay", "sent"}
               /\ options.target_lang # "" /\ translated_text = <<>>) =>
              /\ response_payload.text = response[r].best[1].text
              /\ "translated_text" \in DOMAIN response_payload
              /\ response_payload.translated_text = <<>>
              /\ DOMAIN response_payload \ PayloadKeys # {}
        /\ (response[r].kind = "ok" /\ tpc = "sent" /\ options.return_overlay
               /\ options.target_lang # "" /\ ~options.overlay_boxes_only) =>
              \A i \in 1..Len(overlay_payload) :
                  LET line == overlay_payload[i] IN
                  /\ line.text # <<>>
                  /\ \/ Truthy(line.translated_text)
                     \/ /\ line.translated_text = <<>>
                        /\ "translation_error" \in DOMAIN line

\* the request whose answer is built met a failure while drawing a line
DrawingFailed == tpc = "sent" /\ \E i \in 1..Len(draw_faults) : draw_faults[i] # "none"

\* C21: when drawing one overlay line fails, the request still answers with
\* its transcript and an annotated image, and every line whose drawing did
\* not fail has its translation written in it.
C21_FailedLineOnlySkipped ==
    \A r \in Requests :
        (response[r].kind # "none" /\ DrawingFailed) =>
            /\ response[r].kind = "ok"
            /\ response_payload.text = response[r].best[1].text
            /\ "annotated_image" \in DOMAIN response_payload
            /\ \A j \in 1..Len(overlay_payload) :
                  (draw_faults[j] = "none" /\ Drawn(overlay_payload[j], FALSE)) =>
                      response_payload.annotated_image[1].written[j].text
                          = overlay_payload[j].translated_text[1]

\* C22: the segments handed to merge_segments_into_lines or
\* translate_segment_lines for the overlay are the segments of a candidate of
\* the request whose coordinate_space is 'original', also when the selected
\* candidate is one of a preprocessing pass.
C22_OverlayInOriginalFrame ==
    \A r \in Requests :
        (response[r].kind # "none" /\ tpc = "sent" /\ overlay_segments # <<>>) =>
            \E c \in Range(all_results(r)) :
                /\ c.coordinate_space = "original"
                /\ c.segments = overlay_segments

\* the selected candidate is one of a preprocessing pass with other segments
\* than the ones the overlay was placed with
C22_Witness ==
    /\ tpc = "sent"
    /\ response[1].kind = "ok"
    /\ response[1].best[1].coordinate_space # "original"
    /\ overlay_segments # <<>>
    /\ overlay_segments # response[1].best[1].segments
    /\ overlay_payload # <<>>

\* the passes of the group the request is in
GroupOf(r) == IF cur[r] \in OriginalPasses THEN OriginalPasses ELSE PreprocessPasses

\* C23: release_gpu_memory is called only when no recognition invocation of
\* the group is still executing, and a pass group that has returned (normally,
\* after a pass failure or timeout, without engine handle, or by a failure of
\* the preprocessing) has called it.
C23_ReleaseAfterAllPasses ==
    [][\A r \in Requests :
          /\ released'[r] # released[r] => \A p \in GroupOf(r) : wst[r][p] # "running"
          /\ pc'[r] = "decide" => released'[r] = 1
          /\ (pc'[r] \in {"select", "done"} /\ stage'[r] = "pre") => released'[r] = 2]_vars

\* C24: cleaning a cleaned text gives the same text.
C24_CleanIdempotent ==
    cleaned # <<>> => clean_ocr_text(cleaned[1]) = cleaned[1]

\* the punctuation characters that have an ASCII and a full-width form
TwoFormPunct == DOMAIN ENGLISH_TO_CHINESE_PUNCT \cup DOMAIN CHINESE_TO_ENGLISH_PUNCT
AsciiForm(ch) == IF ch \in DOMAIN CHINESE_TO_ENGLISH_PUNCT THEN CHINESE_TO_ENGLISH_PUNCT[ch] ELSE ch
FullWidthForm(ch) == IF ch \in DOMAIN ENGLISH_TO_CHINESE_PUNCT THEN ENGLISH_TO_CHINESE_PUNCT[ch] ELSE ch

\* C25: normalize_punctuation_by_language keeps the length and every
\* character that is not a two-form punctuation character; such a character
\* becomes its ASCII form when its nearest non-space neighbours are Latin
\* alphanumerics on both sides, its full-width form when they are ideographs
\* on both sides, and stays as it is when one is Latin and the other an
\* ideograph or when neither is Latin or an ideograph.
C25_PunctuationByContext ==
    normalized # <<>> =>
        LET out == normalized[1] IN
        /\ Len(out) = Len(raw_text)
        /\ \A i \in 1..Len(raw_text) :
              LET ch == raw_text[i]
                  l == NearestNonSpace(raw_text, i - 1, -1)
                  r == NearestNonSpace(raw_text, i + 1, 1)
              IN /\ ch \notin TwoFormPunct => out[i] = ch
                 /\ (ch \in TwoFormPunct /\ is_english_alnum(l) /\ is_english_alnum(r)) =>
                        out[i] = AsciiForm(ch)
                 /\ (ch \in TwoFormPunct /\ is_chinese_char(l) /\ is_chinese_char(r)) =>
                        out[i] = FullWidthForm(ch)
                 /\ (ch \in TwoFormPunct
                       /\ \/ is_english_alnum(l) /\ is_chinese_char(r)
                          \/ is_chinese_char(l) /\ is_english_alnum(r)) =>
                        out[i] = ch
                 /\ (ch \in TwoFormPunct
                       /\ ~is_english_alnum(l) /\ ~is_chinese_char(l)
                       /\ ~is_english_alnum(r) /\ ~is_chinese_char(r)) =>
                        out[i] = ch

\* a full-width period between Latin letters, one of them behind a blank,
\* has become the ASCII period
C25_Witness ==
    /\ raw_text = <<"a", "U3002", " ", "b">>
    /\ normalized = <<<<"a", ".", " ", "b">>>>

\* Phase 2 after its first k clusters, and whether the k-th cluster was merged
\* into the block before it
Blocks(k) == Phase2(<<>>, SubSeq(lines, 1, k))
MergedAt(k) == Len(Blocks(k)) = Len(Blocks(k - 1))
PrevRect(k) == Blocks(k - 1)[Len(Blocks(k - 1))].rect

\* the vertical gap between two rects, the one starting higher taken as upper
VerticalGap(a, b) ==
    IF a.y_min > b.y_min THEN a.y_min - b.y_max ELSE b.y_min - a.y_max

\* the gap exceeds min(12, 0.3 x max(height))
ExceedsCap(a, b) ==
    \/ VerticalGap(a, b) > 12
    \/ 10 * VerticalGap(a, b) > 3 * Max2(a.height, b.height)

\* x-overlap > 0 and overlap ratio relative to the narrower rect at least
\* 0.65 when the height ratio is below 0.6, else at least 0.45
OverlapEnough(a, b) ==
    LET x_overlap == Min2(a.x_max, b.x_max) - Max2(a.x_min, b.x_min)
        h_min == Min2(a.height, b.height)
        h_max == Max2(a.height, b.height)
        threshold == IF 10 * h_min < 6 * Max2(1, h_max) THEN 65 ELSE 45
    IN /\ x_overlap > 0
       /\ 100 * x_overlap >= threshold * Max2(1, Min2(a.width, b.width))

\* C26 as stated: a cluster is merged into the block before it only when
\* their vertical gap does not exceed the cap and they overlap enough in x.
C26_NoMergeBeyondCap ==
    mpc = "return" =>
        \A k \in 2..Len(lines) :
            MergedAt(k) => /\ ~ExceedsCap(PrevRect(k), lines[k].rect)
                           /\ OverlapEnough(PrevRect(k), lines[k].rect)

\* C26, amended: a cluster is merged into the block before it exactly when
\* they overlap enough in x and their vertical gap is below 10 px or does not
\* exceed the cap.
C26_MergeByOverlapAndGap ==
    mpc = "return" =>
        \A k \in 2..Len(lines) :
            MergedAt(k) <=>
                /\ OverlapEnough(PrevRect(k), lines[k].rect)
                /\ \/ VerticalGap(PrevRect(k), lines[k].rect) < 10
                   \/ ~ExceedsCap(PrevRect(k), lines[k].rect)

\* a cluster merged at a gap of 10 px or more
C26_Witness ==
    /\ mpc = "return"
    /\ \E k \in 2..Len(lines) :
          MergedAt(k) /\ VerticalGap(PrevRect(k), lines[k].rect) >= 10

\* C27: the confidence of every candidate is the arithmetic mean of the
\* confidences of the segments in its segments list (confSum / confN is the
\* candidate's confidence).
C27_ConfidenceIsMeanOfSegments ==
    \A r \in Requests :
        \A c \in Range(all_results(r)) :
            /\ c.segments # <<>>
            /\ c.confSum * Len(c.segments)
                  = c.confN * SumSeq([i \in 1..Len(c.segments) |-> c.segments[i].confidence])

\* the request is inside a run_with_timeout call
InRunWithTimeout(r) == pc[r] \in {"rwt_join", "rwt_alive"}

\* C28: reader.readtext executes only in the thread of a run_with_timeout
\* call (the current one, or one whose deadline has elapsed); the deadline of
\* a call is 30 s in a preprocessing pass with deskewing and 15 s otherwise;
\* and the preprocessing deskews exactly when the unmodified-image passes
\* gave no candidate.
C28_EveryInvocationBounded ==
    \A r \in Requests :
        /\ \A p \in Passes :
              wst[r][p] = "running" =>
                  \/ InRunWithTimeout(r) /\ cur[r] = p
                  \/ timeouts > 0
        /\ InRunWithTimeout(r) =>
              timeout_seconds[r] = IF cur[r] \in PreprocessPasses /\ apply_deskew[r]
                                   THEN 30 ELSE 15
        /\ (stage[r] = "pre" /\ pc[r] \in {"pre_prepare", "rwt_start", "rwt_join", "rwt_alive"}) =>
              (apply_deskew[r] <=> easyocr_original[r] = <<>>)

\* a preprocessing pass with deskewing is inside its call, its deadline 30 s
C28_Witness ==
    /\ InRunWithTimeout(1)
    /\ cur[1] \in PreprocessPasses
    /\ apply_deskew[1]
    /\ wst[1][cur[1]] = "running"
    /\ timeout_seconds[1] = 30

\* the rects the merger holds when it returns: the _rect of every segment it
\* was given, the cluster rects of Phase 1 and the block rects of Phase 2
MergerGroups == Range(lines) \cup Range(merged)

\* the bounds of a cluster or block are the extrema of its member segments
BoundsAreUnion(g) ==
    LET members == {g.segments[i]._rect : i \in 1..Len(g.segments)} IN
    /\ g.rect.x_min = MinOf({m.x_min : m \in members})
    /\ g.rect.x_max = MaxOf({m.x_max : m \in members})
    /\ g.rect.y_min = MinOf({m.y_min : m \in members})
    /\ g.rect.y_max = MaxOf({m.y_max : m \in members})

\* C29: every rect of the merger has width >= 1 and height >= 1, the
\* recomputed rects of clusters and blocks included, and the bounds of a
\* cluster or block are the union of the extrema of its member segments.
C29_RectsKeepFloor ==
    mpc = "return" =>
        \A g \in MergerGroups :
            /\ g.rect.width >= 1
            /\ g.rect.height >= 1
            /\ \A i \in 1..Len(g.segments) :
                  g.segments[i]._rect.width >= 1 /\ g.segments[i]._rect.height >= 1
            /\ BoundsAreUnion(g)

\* the call of get_easyocr_reader for the unmodified-image passes of request
\* r has returned None
NoHandle(r) == stage[r] = "orig" /\ pc[r] = "decide" /\ reader[r] = 0

\* the call for the unmodified-image passes of request r returned None and
\* the request has not finished its passes: a group that got a handle ends
\* with release_gpu_memory(), so no release has been counted
OriginalGotNoHandle(r) == released[r] = 0 /\ (NoHandle(r) \/ stage[r] = "pre")

\* C30: when the construction of the handle fails, get_easyocr_reader
\* returns no handle, no pass of the request invokes the engine or
\* contributes a candidate from then on, and the request answers
\* 'No text detected'.
C30_FailedConstructionNoText ==
    [][\A r \in Requests :
          OriginalGotNoHandle(r) =>
              /\ \A p \in Passes : wst'[r][p] # "running"
              /\ all_results(r)' = <<>>
              /\ pc'[r] = "done" => response'[r].kind = "No text detected"]_vars

\* what a step does to the shared handle and what a call returns
HandleStep ==
    \* the shared handle changes only to a completely constructed Reader,
    \* so a failed attempt leaves it as it was
    /\ easyocr_reader' # easyocr_reader =>
          constructed' = constructed + 1 /\ easyocr_reader' = constructed'
    /\ \A t \in Threads :
          \* the call returns the shared handle: None while it is unset
          /\ (pc[t] = "ger_ret" /\ pc'[t] # "ger_ret") => reader'[t] = easyocr_reader
          \* a call that finds the handle unset attempts the construction
          /\ (pc[t] = "ger_check" /\ pc'[t] # "ger_check" /\ easyocr_reader = 0) =>
                pc'[t] \in {"ger_gpu", "ger_cpu"}
          \* attempts are only made by a call that found the handle unset
          /\ (pc[t] = "ger_check" /\ pc'[t] \in {"ger_gpu", "ger_cpu"}) => easyocr_reader = 0

\* a pass group whose call returned None contributes nothing and runs nothing
GroupSkipped ==
    \A r \in Requests :
        /\ NoHandle(r) =>
              /\ easyocr_original[r] = <<>>
              /\ released[r] = 0
              /\ \A p \in Passes : wst[r][p] = "idle"
        /\ (stage[r] = "pre" /\ pc[r] \in {"select", "done"} /\ reader[r] = 0) =>
              /\ easyocr_preprocessed[r] = <<>>
              /\ \A p \in PreprocessPasses : wst[r][p] = "idle"
              /\ (easyocr_original[r] = <<>> /\ pc[r] = "done") =>
                    response[r].kind = "No text detected"

\* C30 (amended): a failed construction attempt leaves the shared handle as
\* it was, which is unset or a completely constructed Reader; a call returns
\* the shared handle and attempts the construction whenever it finds it
\* unset; a pass group whose call returned None contributes zero candidates
\* without invoking the engine; and a request whose both groups got none
\* answers 'No text detected'.
C30_NoHandleGroupSkipped == []GroupSkipped /\ [][HandleStep]_vars

\* a request has answered 'No text detected' after both of its calls failed
\* to construct the handle
C30_Witness ==
    /\ pc[1] = "done"
    /\ stage[1] = "pre"
    /\ reader[1] = 0
    /\ easyocr_reader = 0
    /\ response[1].kind = "No text detected"

====
